---- MODULE Spec2Model ----
(***************************************************************************)
(* Model of the rendering pipeline of gumbee/prompt: the tree walker       *)
(* (renderToIR / processNode / processElement), the IR finalizer, the      *)
(* WrapUser evaluator (evaluateWrapUserContent / processWrapUsers) and the *)
(* three adapters (OpenAI, AI SDK, Anthropic).                             *)
(*                                                                         *)
(* A string is a sequence of one-character strings.  The node tree is fed  *)
(* to the walker in document order: one action per processElement branch   *)
(* consumes the next node, CloseElement ends the children loop of the      *)
(* innermost open element.  `input` records the nodes consumed so far.     *)
(* Every in-progress message carries `src`, the position in `input` of the *)
(* marker that opened it (history variable, never read by the program).    *)
(***************************************************************************)
EXTENDS Naturals, Sequences, FiniteSets

VARIABLES input, frames, lists, phase, ir, options, adapter, out, system, calls, runs

vars == <<input, frames, lists, phase, ir, options, adapter, out, system, calls, runs>>

----------------------------------------------------------------------------
(* Bounds of the model *)

MaxNodes == 3
MaxMsgNodes == 4
MaxWrapNodes == 4
MaxHistory == 1
MaxHistNodes == 3
MaxHistLen == 2
MaxFileNodes == 4
MaxNativeNodes == 4
MaxResultNodes == 4
MaxToolNodes == 3
MaxGroupNodes == 4
MaxStaticNodes == 3
MaxNestedNodes == 4

----------------------------------------------------------------------------
(* Strings *)

NL == "\n"
SP == " "
Whitespace == {SP, NL}

RECURSIVE Concat(_)
Concat(ss) == IF ss = <<>> THEN <<>> ELSE Head(ss) \o Concat(Tail(ss))

RECURSIVE Join(_, _)
Join(ss, sep) ==
  IF ss = <<>> THEN <<>>
  ELSE IF Len(ss) = 1 THEN ss[1]
  ELSE ss[1] \o sep \o Join(Tail(ss), sep)

RECURSIVE DropLeading(_, _)
DropLeading(s, cs) ==
  IF s # <<>> /\ s[1] \in cs THEN DropLeading(Tail(s), cs) ELSE s

RECURSIVE DropTrailing(_, _)
DropTrailing(s, cs) ==
  IF s # <<>> /\ s[Len(s)] \in cs THEN DropTrailing(SubSeq(s, 1, Len(s) - 1), cs) ELSE s

Trim(s) == DropTrailing(DropLeading(s, Whitespace), Whitespace)

TrimNewlines(s) == DropTrailing(DropLeading(s, {NL}), {NL})

RECURSIVE Split(_, _)
Split(s, c) ==
  IF \A i \in 1..Len(s) : s[i] # c THEN <<s>>
  ELSE LET k == CHOOSE i \in 1..Len(s) : s[i] = c /\ \A j \in 1..(i - 1) : s[j] # c
       IN <<SubSeq(s, 1, k - 1)>> \o Split(SubSeq(s, k + 1, Len(s)), c)

Repeat(c, n) == [i \in 1..n |-> c]

(* faulty variant: no line is indented *)
IndentNoLine(s, n) == s

IndentLines(s, n) ==
  LET lines == Split(s, NL)
      indentStr == Repeat(SP, n)
  IN Join([i \in 1..Len(lines) |-> IF lines[i] # <<>> THEN indentStr \o lines[i] ELSE lines[i]], <<NL>>)

OpenTag(tag) == <<"<", tag, ">">>
CloseTag(tag) == <<"<", "/", tag, ">">>

----------------------------------------------------------------------------
(* Node tree, as consumed by the walker *)

Tok(k, a, b, n, t) == [k |-> k, a |-> a, b |-> b, n |-> n, t |-> t]

MESSAGE_TYPES == {"llm:system", "llm:user", "llm:assistant", "llm:tool-result"}

getRoleFromType(type) ==
  CASE type = "llm:system" -> "system"
    [] type = "llm:user" -> "user"
    [] type = "llm:assistant" -> "assistant"
    [] type = "llm:tool-call" -> "assistant"
    [] type = "llm:tool-result" -> "tool"
    [] OTHER -> "null"

(* An optional value: undefined, or a JSON object given by its keys *)
Undefined == [defined |-> FALSE, value |-> <<>>]
Object(keys) == [defined |-> TRUE, value |-> keys]

Stringify(obj) == <<"{">> \o obj.value \o <<"}">>

(* Text leaves, tags and props the author may write *)
Texts == {<<"a">>, <<SP, "b">>, <<NL>>}
Tags == {"x", "user"}
Modes == {"prefix", "suffix"}
Indents == {0, 1}

(* The i-th text leaf of an input whose text leaves are pairwise different *)
LetterTexts == << <<"a">>, <<SP, "b">>, <<"c", NL>>, <<"d">>, <<"e">>, <<"f">>, <<"g">>, <<"h">> >>
UpperTexts == << <<"A">>, <<"B">>, <<"C">>, <<"D">>, <<"E">>, <<"F">>, <<"G">>, <<"H">> >>

(* Props of a message element: only ToolResult passes any *)
NoProps == [id |-> "", name |-> "", json |-> Undefined, isError |-> FALSE]
MessageProps(type, id) == IF type = "llm:tool-result" THEN [NoProps EXCEPT !.id = id] ELSE NoProps

(* Native SDK messages an author may pass through *)
NativeContents == <<[role |-> "assistant", content |-> <<"n">>],
                    [role |-> "system", content |-> <<"m">>]>>

(* File parts, as the File component builds its props *)
FileProps == {[type |-> "image", mimeType |-> "image/png", data |-> "u1", isUrl |-> TRUE, filename |-> "undefined"],
              [type |-> "file", mimeType |-> "text/csv", data |-> "d2", isUrl |-> FALSE, filename |-> "f.csv"]}

(* An IRContentPart: a file part (text unused) or a text part *)
FilePart(props) ==
  [type |-> props.type, mimeType |-> props.mimeType, data |-> props.data,
   isUrl |-> props.isUrl, filename |-> props.filename, text |-> <<>>]

TextPart(text) ==
  [type |-> "text", mimeType |-> "", data |-> "", isUrl |-> FALSE, filename |-> "undefined", text |-> text]

(* Deferred-conditional functions: fn({hasUser}) for hasUser TRUE / FALSE.  *)
(* A result is falsy (null/undefined/false), a string, or a JSX fragment of *)
(* text and File leaves.                                                    *)
Falsy == [type |-> "falsy", text |-> <<>>, nodes |-> <<>>]
StringResult(text) == [type |-> "string", text |-> text, nodes |-> <<>>]
JsxResult(nodes) == [type |-> "jsx", text |-> <<>>, nodes |-> nodes]
JsxText(t) == [k |-> "text", t |-> t, props |-> CHOOSE p \in FileProps : TRUE]
JsxFile(props) == [k |-> "llm:file", t |-> <<>>, props |-> props]

ConditionFns ==
  <<[whenUser |-> StringResult(<<"X">>), noUser |-> Falsy],
    [whenUser |-> JsxResult(<<JsxText(<<"J">>), JsxFile(CHOOSE p \in FileProps : p.type = "image")>>),
     noUser |-> StringResult(<<"Y">>)],
    [whenUser |-> JsxResult(<<JsxFile(CHOOSE p \in FileProps : p.type = "file"), JsxText(<<"K">>)>>),
     noUser |-> JsxResult(<<JsxFile(CHOOSE p \in FileProps : p.type = "file")>>)]>>

(* the functions the prompts of a specification draw from *)
TextFns == {1, 2}
FileFns == {2, 3}

CallFn(f, hasUser) == IF hasUser THEN ConditionFns[f].whenUser ELSE ConditionFns[f].noUser

PlaceholderChars == <<"\\x00COND_0\\x00", "\\x00COND_1\\x00", "\\x00COND_2\\x00", "\\x00COND_3\\x00">>

(* faulty variant: every placeholder carries index 0 *)
PlaceholderZero(idx) == <<PlaceholderChars[1]>>

(* `\x00COND_${idx}\x00` *)
Placeholder(idx) == <<PlaceholderChars[idx + 1]>>

----------------------------------------------------------------------------
(* In-progress messages *)

RenderMessage(role, src) ==
  [role |-> role, content |-> <<>>, parts |-> <<>>, toolCalls |-> <<>>,
   toolCallId |-> "undefined", toolName |-> "undefined",
   toolResultJson |-> Undefined, toolResultIsError |-> FALSE,
   isNative |-> FALSE, nativeContent |-> 0,
   isWrapUser |-> FALSE, wrapUserTag |-> "undefined", wrapUserMode |-> "undefined",
   wrapUserConditions |-> <<>>, src |-> src]

Frame(kind, role, tag, indent, idx) ==
  [kind |-> kind, role |-> role, tag |-> tag, indent |-> indent, idx |-> idx]

NodeCount == Cardinality({i \in 1..Len(input) : input[i].k # "close"})
Room(n) == NodeCount < n

Top == frames[Len(frames)]
CurrentRole == IF frames = <<>> THEN "null" ELSE Top.role
Skipping == frames # <<>> /\ Top.kind = "skip"
Walking == phase = "walk" /\ ~Skipping

(* The list processNode appends to: renderToIR's messages, or the          *)
(* childMessages buffer of the innermost open block Group.                 *)
Messages == lists[Len(lists)]
SetMessages(ms) == [lists EXCEPT ![Len(lists)] = ms]

(* currentRole !== null && currentMessage && currentMessage.role === currentRole *)
HasCurrentMessage ==
  /\ CurrentRole # "null"
  /\ Messages # <<>>
  /\ Messages[Len(Messages)].role = CurrentRole

(* faulty variant: the new message goes to the front *)
PushFront(ms, m) == <<m>> \o ms

(* messages.push(newMessage) *)
Push(ms, m) == Append(ms, m)

(* faulty variant: any assistant message counts *)
AnyAssistant(ms) == \E i \in 1..Len(ms) : ms[i].role = "assistant"

(* lastMessage && lastMessage.role === "assistant" *)
LastIsAssistant(ms) == ms # <<>> /\ ms[Len(ms)].role = "assistant"

(* faulty variant: the fragment goes to the first message of the list *)
PushContentFirst(ms, i, frag) == [ms EXCEPT ![1].content = Append(@, frag)]

(* messages[i].content.push(frag) *)
PushContent(ms, i, frag) == [ms EXCEPT ![i].content = Append(@, frag)]

AdapterVars == <<phase, ir, options, adapter, out, system, calls, runs>>

(* Two renderToIR calls in flight: what each call holds (its tree, the     *)
(* index of the next node, its role contexts, the accumulator it           *)
(* allocated) and the accumulators themselves                              *)
Callers == {1, 2}
NoRun == [tree |-> <<>>, pc |-> 0, roles |-> <<>>, acc |-> 0, returned |-> FALSE, result |-> <<>>]
NoRuns == [call |-> [c \in Callers |-> NoRun], heap |-> [a \in Callers |-> <<>>]]

Init ==
  /\ input = <<>>
  /\ frames = <<>>
  /\ lists = << <<>> >>
  /\ phase = "walk"
  /\ ir = <<>>
  /\ options = [messages |-> <<>>, hasMessages |-> FALSE, callerArray |-> <<>>]
  /\ adapter = "none"
  /\ out = <<>>
  /\ system = [defined |-> FALSE, text |-> <<>>]
  /\ calls = <<>>
  /\ runs = NoRuns

----------------------------------------------------------------------------
(* processNode / processElement, one action per branch *)

(* string / number leaf *)
TextLeaf(t) ==
  /\ Walking
  /\ input' = Append(input, Tok("text", "", "", 0, t))
  /\ lists' = IF HasCurrentMessage
              THEN SetMessages(PushContent(Messages, Len(Messages), t))
              ELSE lists
  /\ UNCHANGED <<frames, AdapterVars>>

(* faulty variant: a function is stored with the current message wherever  *)
(* it stands                                                               *)
FunctionNodeAnywhere(f) ==
  /\ Walking
  /\ input' = Append(input, Tok("function", "", "", f, <<>>))
  /\ IF HasCurrentMessage
     THEN LET last == Len(Messages)
              idx == Len(Messages[last].wrapUserConditions)
          IN lists' = SetMessages([Messages EXCEPT
                          ![last].content = Append(@, Placeholder(idx)),
                          ![last].wrapUserConditions = Append(@, f)])
     ELSE lists' = lists
  /\ UNCHANGED <<frames, AdapterVars>>

(* a function node: a direct child of WrapUser is stored and leaves a      *)
(* placeholder; anywhere else processNode ignores it                       *)
FunctionNode(f) ==
  /\ Walking
  /\ input' = Append(input, Tok("function", "", "", f, <<>>))
  /\ IF frames # <<>> /\ Top.kind = "wrap-user"
     THEN LET newMessage == Messages[Top.idx]
              idx == Len(newMessage.wrapUserConditions)
          IN lists' = SetMessages([Messages EXCEPT
                          ![Top.idx].content = Append(@, Placeholder(idx)),
                          ![Top.idx].wrapUserConditions = Append(@, f)])
     ELSE lists' = lists
  /\ UNCHANGED <<frames, AdapterVars>>

(* Fragment, function component, control type, unknown type: children are  *)
(* processed under the same role                                            *)
TransparentEl(type) ==
  /\ Walking
  /\ input' = Append(input, Tok(type, "", "", 0, <<>>))
  /\ frames' = Append(frames, Frame("transparent", CurrentRole, "", 0, 0))
  /\ UNCHANGED <<lists, AdapterVars>>

NativeEl(c) ==
  /\ Walking
  /\ input' = Append(input, Tok("llm:native", "", "", c, <<>>))
  /\ lists' = SetMessages(Push(Messages,
                 [RenderMessage("user", Len(input) + 1) EXCEPT !.isNative = TRUE, !.nativeContent = c]))
  /\ UNCHANGED <<frames, AdapterVars>>

WrapUserEl(tag, mode) ==
  /\ Walking
  /\ input' = Append(input, Tok("llm:wrap-user", tag, mode, 0, <<>>))
  /\ lists' = SetMessages(Push(Messages,
                 [RenderMessage("user", Len(input) + 1) EXCEPT
                    !.isWrapUser = TRUE, !.wrapUserTag = tag, !.wrapUserMode = mode]))
  /\ frames' = Append(frames, Frame("wrap-user", "user", tag, 0, Len(Messages) + 1))
  /\ UNCHANGED AdapterVars

GroupEl(tag, indentProp, inline) ==
  /\ Walking
  /\ input' = Append(input, Tok("llm:group", tag, IF inline THEN "inline" ELSE "block", indentProp, <<>>))
  /\ LET indent == IF indentProp = 0 THEN 2 ELSE indentProp
         cur == Len(Messages)
     IN IF HasCurrentMessage
        THEN IF inline
             THEN /\ lists' = SetMessages(PushContent(Messages, cur, OpenTag(tag)))
                  /\ frames' = Append(frames, Frame("group-inline", CurrentRole, tag, indent, cur))
             ELSE /\ lists' = Append(SetMessages(PushContent(Messages, cur, OpenTag(tag) \o <<NL>>)),
                                     <<RenderMessage(CurrentRole, 0)>>)
                  /\ frames' = Append(frames, Frame("group-block", CurrentRole, tag, indent, cur))
        ELSE /\ lists' = lists
             /\ frames' = Append(frames, Frame("skip", CurrentRole, tag, indent, 0))
  /\ UNCHANGED AdapterVars

ToolCallEl(props) ==
  /\ Walking
  /\ input' = Append(input, Tok("llm:tool-call", props.id, props.name, 0, props.input.value))
  /\ LET toolCall == [id |-> props.id, name |-> props.name,
                      args |-> IF "args" \in DOMAIN props THEN props.args ELSE Object(<<>>)]
         last == Len(Messages)
     IN IF LastIsAssistant(Messages)
        THEN lists' = SetMessages([Messages EXCEPT ![last].toolCalls = Append(@, toolCall)])
        ELSE lists' = SetMessages(Push(Messages,
                         [RenderMessage("assistant", Len(input) + 1) EXCEPT !.toolCalls = <<toolCall>>]))
  /\ UNCHANGED <<frames, AdapterVars>>

MessageEl(type, props) ==
  /\ Walking
  /\ type \in MESSAGE_TYPES
  /\ input' = Append(input, Tok(type, props.id, props.name, 0, <<>>))
  /\ LET role == getRoleFromType(type)
         base == RenderMessage(role, Len(input) + 1)
         newMessage == IF type = "llm:tool-result"
                       THEN [base EXCEPT
                               !.toolCallId = IF props.id # "" THEN props.id ELSE @,
                               !.toolName = IF props.name # "" THEN props.name ELSE @,
                               !.toolResultJson = IF props.json.defined THEN props.json ELSE @,
                               !.toolResultIsError = props.isError]
                       ELSE base
     IN /\ lists' = SetMessages(Push(Messages, newMessage))
        /\ frames' = Append(frames, Frame("message", role, "", 0, Len(Messages) + 1))
  /\ UNCHANGED AdapterVars

(* A ToolResult element together with its children, which the branch       *)
(* inspects before it walks them.  A child is a text, a <Json data> element *)
(* or an element of another function component, with or without a data    *)
(* prop; t is the text the child renders to.                               *)
JsonData == <<Object(<<"j">>), Object(<<"p">>), Object(<<"q">>)>>
DataOf(n) == IF n = 0 THEN Undefined ELSE JsonData[n]
TextChild(t) == Tok("text", "", "", 0, t)
JsonChild(n) == Tok("Json", "", "", n, Stringify(JsonData[n]))
ComponentChild(n) == Tok("component", "", "", n, <<"c">>)
ResultChildren ==
  {TextChild(<<"a">>), TextChild(<<SP>>), TextChild(<<NL>>), JsonChild(2), ComponentChild(3), ComponentChild(0)}

(* typeof child === "string" ? child.trim().length > 0 : child != null *)
IsMeaningful(child) == child.k = "text" => Trim(child.t) # <<>>

(* isElement(node) && "data" in node.props, for an "llm:json" element and  *)
(* for an element of any function component                                *)
extractJsonData(node) == IF node.k = "text" THEN Undefined ELSE DataOf(node.n)

ToolResultEl(id, json, children) ==
  /\ Walking
  /\ input' = input \o <<Tok("llm:tool-result", id, "", json, <<>>)>> \o children
                     \o <<Tok("close", "", "", 0, <<>>)>>
  /\ LET meaningfulChildren == SelectSeq(children, IsMeaningful)
         detected == IF json = 0 /\ Len(meaningfulChildren) = 1
                     THEN extractJsonData(meaningfulChildren[1])
                     ELSE Undefined
         newMessage == [RenderMessage("tool", Len(input) + 1) EXCEPT
                          !.toolCallId = id,
                          !.toolResultJson = IF json # 0 THEN DataOf(json)
                                             ELSE IF detected.defined THEN detected ELSE @,
                          !.content = [i \in 1..Len(children) |-> children[i].t]]
     IN lists' = SetMessages(Push(Messages, newMessage))
  /\ UNCHANGED <<frames, AdapterVars>>

FileEl(props) ==
  /\ Walking
  /\ input' = Append(input, Tok("llm:file", props.data, "", 0, <<>>))
  /\ lists' = IF HasCurrentMessage
              THEN SetMessages([Messages EXCEPT ![Len(Messages)].parts = Append(@, FilePart(props))])
              ELSE lists
  /\ UNCHANGED <<frames, AdapterVars>>

(* children of an element whose branch returned before its children loop *)
SkippedNode(tok, isElement) ==
  /\ phase = "walk"
  /\ Skipping
  /\ input' = Append(input, tok)
  /\ frames' = IF isElement THEN Append(frames, Frame("skip", CurrentRole, "", 0, 0)) ELSE frames
  /\ UNCHANGED <<lists, AdapterVars>>

(* end of the children loop of the innermost open element *)
CloseElement ==
  /\ phase = "walk"
  /\ frames # <<>>
  /\ input' = Append(input, Tok("close", "", "", 0, <<>>))
  /\ frames' = SubSeq(frames, 1, Len(frames) - 1)
  /\ CASE Top.kind = "group-inline" ->
            lists' = SetMessages(PushContent(Messages, Top.idx, CloseTag(Top.tag)))
       [] Top.kind = "group-block" ->
            LET childMessages == Messages
                outer == lists[Len(lists) - 1]
                childContent == TrimNewlines(Concat(childMessages[1].content))
                indentedContent == IndentLines(childContent, Top.indent)
                closed == PushContent(PushContent(outer, Top.idx, indentedContent),
                                      Top.idx, <<NL>> \o CloseTag(Top.tag) \o <<NL>>)
            IN lists' = Append(SubSeq(lists, 1, Len(lists) - 2), closed)
       [] OTHER -> lists' = lists
  /\ UNCHANGED AdapterVars

----------------------------------------------------------------------------
(* IR finalizer: the map at the end of renderToIR *)

ToIRMessage(msg) ==
  IF msg.isNative
  THEN [RenderMessage(msg.role, msg.src) EXCEPT !.isNative = TRUE, !.nativeContent = msg.nativeContent]
  ELSE LET textContent == Trim(Concat(msg.content))
           allParts == IF msg.parts # <<>>
                       THEN (IF textContent # <<>>
                             THEN <<TextPart(textContent)>>
                             ELSE <<>>)
                            \o msg.parts
                       ELSE <<>>
       IN [role |-> msg.role, content |-> textContent, parts |-> allParts,
           toolCalls |-> msg.toolCalls, toolCallId |-> msg.toolCallId,
           toolName |-> msg.toolName, toolResultJson |-> msg.toolResultJson,
           toolResultIsError |-> msg.toolResultIsError,
           isNative |-> FALSE, nativeContent |-> 0,
           isWrapUser |-> msg.isWrapUser,
           wrapUserTag |-> IF msg.isWrapUser THEN msg.wrapUserTag ELSE "undefined",
           wrapUserMode |-> IF msg.isWrapUser THEN msg.wrapUserMode ELSE "undefined",
           wrapUserConditions |-> IF msg.isWrapUser THEN msg.wrapUserConditions ELSE <<>>,
           src |-> msg.src]

RenderToIR ==
  /\ phase = "walk"
  /\ frames = <<>>
  /\ phase' = "ir"
  /\ ir' = [i \in 1..Len(lists[1]) |-> ToIRMessage(lists[1][i])]
  /\ UNCHANGED <<input, frames, lists, options, adapter, out, system, calls, runs>>

----------------------------------------------------------------------------
(* renderToIR, called twice: the steps of the two calls interleave *)

(* faulty variant: one accumulator of the module serves every call *)
SharedAccumulator(c) == 1

(* const messages: RenderMessage[] = [] -- allocated by the call *)
OwnAccumulator(c) == c

(* processNode on the next node of a tree of messages and text leaves *)
processNodeOn(messages, roles, tok, pc) ==
  LET currentRole == IF roles = <<>> THEN "null" ELSE roles[Len(roles)]
  IN CASE tok.k \in MESSAGE_TYPES ->
            [messages |-> Push(messages, RenderMessage(getRoleFromType(tok.k), pc)),
             roles |-> Append(roles, getRoleFromType(tok.k))]
       [] tok.k = "text" ->
            [messages |-> IF /\ currentRole # "null"
                             /\ messages # <<>>
                             /\ messages[Len(messages)].role = currentRole
                          THEN PushContent(messages, Len(messages), tok.t)
                          ELSE messages,
             roles |-> roles]
       [] OTHER -> [messages |-> messages, roles |-> SubSeq(roles, 1, Len(roles) - 1)]

RunTrees ==
  {<<Tok("llm:user", "", "", 0, <<>>), Tok("text", "", "", 0, <<"a">>), Tok("close", "", "", 0, <<>>)>>,
   <<Tok("llm:system", "", "", 0, <<>>), Tok("text", "", "", 0, <<SP, "b">>), Tok("close", "", "", 0, <<>>),
     Tok("llm:user", "", "", 0, <<>>), Tok("close", "", "", 0, <<>>)>>,
   <<Tok("text", "", "", 0, <<"d">>), Tok("llm:assistant", "", "", 0, <<>>),
     Tok("text", "", "", 0, <<"c", NL>>), Tok("text", "", "", 0, <<"e">>), Tok("close", "", "", 0, <<>>)>>}

CallRender(c, tree) ==
  /\ runs.call[c].pc = 0
  /\ runs' = [call |-> [runs.call EXCEPT ![c] = [NoRun EXCEPT !.tree = tree, !.pc = 1, !.acc = OwnAccumulator(c)]],
              heap |-> [runs.heap EXCEPT ![OwnAccumulator(c)] = <<>>]]
  /\ UNCHANGED <<input, frames, lists, phase, ir, options, adapter, out, system, calls>>

StepRender(c) ==
  LET run == runs.call[c]
  IN /\ run.pc >= 1
     /\ run.pc <= Len(run.tree)
     /\ LET next == processNodeOn(runs.heap[run.acc], run.roles, run.tree[run.pc], run.pc)
        IN runs' = [call |-> [runs.call EXCEPT ![c] = [run EXCEPT !.pc = @ + 1, !.roles = next.roles]],
                    heap |-> [runs.heap EXCEPT ![run.acc] = next.messages]]
     /\ UNCHANGED <<input, frames, lists, phase, ir, options, adapter, out, system, calls>>

ReturnRender(c) ==
  LET run == runs.call[c]
  IN /\ run.pc > Len(run.tree)
     /\ run.pc >= 1
     /\ ~run.returned
     /\ runs' = [runs EXCEPT !.call[c].returned = TRUE,
                             !.call[c].result = [i \in 1..Len(runs.heap[run.acc]) |-> ToIRMessage(runs.heap[run.acc][i])]]
     /\ UNCHANGED <<input, frames, lists, phase, ir, options, adapter, out, system, calls>>

----------------------------------------------------------------------------
(* WrapUser evaluation (utils: evaluateWrapUserContent, processWrapUsers) *)

IsPlaceholder(c) == \E i \in 1..Len(PlaceholderChars) : PlaceholderChars[i] = c
PlaceholderIndex(c) == (CHOOSE i \in 1..Len(PlaceholderChars) : PlaceholderChars[i] = c) - 1

(* renderToContent of a function result: text and File leaves of a fragment *)
RECURSIVE renderToContent(_)
renderToContent(nodes) ==
  IF nodes = <<>> THEN [content |-> <<>>, parts |-> <<>>]
  ELSE LET rest == renderToContent(Tail(nodes))
           n == Head(nodes)
       IN IF n.k = "text"
          THEN [content |-> n.t \o rest.content, parts |-> rest.parts]
          ELSE [content |-> rest.content, parts |-> <<FilePart(n.props)>> \o rest.parts]

EvaluatedResult(result) ==
  CASE result.type = "falsy" -> [content |-> <<>>, parts |-> <<>>]
    [] result.type = "string" -> [content |-> result.text, parts |-> <<>>]
    [] OTHER -> renderToContent(result.nodes)

(* faulty variant: the function is told that a user message exists *)
InvocationWithUser(msg, i, hasUser) ==
  [fn |-> msg.wrapUserConditions[i], hasUser |-> TRUE, src |-> msg.src, idx |-> i - 1]

(* fn({ hasUser }): the i-th stored function of msg is invoked *)
Invocation(msg, i, hasUser) ==
  [fn |-> msg.wrapUserConditions[i], hasUser |-> hasUser, src |-> msg.src, idx |-> i - 1]

evaluateWrapUserContent(msg, hasUser) ==
  IF msg.wrapUserConditions # <<>>
  THEN LET n == Len(msg.wrapUserConditions)
           evaluatedResults == [i \in 1..n |-> EvaluatedResult(CallFn(msg.wrapUserConditions[i], hasUser))]
           Replace(c) == IF IsPlaceholder(c)
                         THEN (IF PlaceholderIndex(c) < n THEN evaluatedResults[PlaceholderIndex(c) + 1].content ELSE <<>>)
                         ELSE <<c>>
       IN [content |-> Concat([i \in 1..Len(msg.content) |-> Replace(msg.content[i])]),
           parts |-> Concat([i \in 1..n |-> evaluatedResults[i].parts]),
           calls |-> [i \in 1..n |-> Invocation(msg, i, hasUser)]]
  ELSE [content |-> msg.content, parts |-> <<>>, calls |-> <<>>]

wrapXml(tag, content, indent) ==
  IF indent > 0
  THEN OpenTag(tag) \o <<NL>> \o IndentLines(content, indent) \o <<NL>> \o CloseTag(tag)
  ELSE OpenTag(tag) \o <<NL>> \o content \o <<NL>> \o CloseTag(tag)

WrapIndent == 2

(* faulty variant: the first tag wins *)
firstTag(wrapUserMessages) ==
  IF wrapUserMessages = <<>> THEN "user" ELSE wrapUserMessages[1].wrapUserTag

(* let finalTag = "user"; for each message: finalTag = msg.wrapUserTag ?? "user" *)
finalTag(wrapUserMessages) ==
  LET n == Len(wrapUserMessages)
  IN IF n = 0 THEN "user"
     ELSE IF wrapUserMessages[n].wrapUserTag = "undefined" THEN "user"
     ELSE wrapUserMessages[n].wrapUserTag

(* faulty variant: the buckets swapped *)
textPartsSuffixFirst(prefixes, wrappedOriginal, suffixes) == suffixes \o <<wrappedOriginal>> \o prefixes

(* const textParts = [...prefixes, wrappedOriginal, ...suffixes] *)
textParts(prefixes, wrappedOriginal, suffixes) == prefixes \o <<wrappedOriginal>> \o suffixes

processWrapUsers(wrapUserMessages, originalContent, hasUser) ==
  LET n == Len(wrapUserMessages)
      evaluated == [i \in 1..n |-> evaluateWrapUserContent(wrapUserMessages[i], hasUser)]
      mode(i) == IF wrapUserMessages[i].wrapUserMode = "undefined" THEN "suffix"
                 ELSE wrapUserMessages[i].wrapUserMode
      prefixes == Concat([i \in 1..n |-> IF mode(i) = "prefix" THEN <<evaluated[i].content>> ELSE <<>>])
      suffixes == Concat([i \in 1..n |-> IF mode(i) = "prefix" THEN <<>> ELSE <<evaluated[i].content>>])
      wrappedOriginal == wrapXml(finalTag(wrapUserMessages), originalContent, WrapIndent)
  IN [content |-> Join(textParts(prefixes, wrappedOriginal, suffixes), <<NL, NL>>),
      parts |-> Concat([i \in 1..n |-> evaluated[i].parts]),
      calls |-> Concat([i \in 1..n |-> evaluated[i].calls])]

----------------------------------------------------------------------------
(* Wire messages.  kind is the shape of `content`: "string", "null" or      *)
(* "array" (then `blocks` holds the content parts).  origin and src record *)
(* where the message comes from (history variables).                       *)

Wire(role, kind, content, blocks) ==
  [role |-> role, kind |-> kind, content |-> content, blocks |-> blocks,
   tool_call_id |-> "undefined", tool_calls |-> <<>>, origin |-> "jsx", src |-> 0]

Block(type) ==
  [type |-> type, text |-> <<>>, id |-> "", name |-> "", data |-> <<>>, mediaType |-> "",
   args |-> Undefined, input |-> Undefined, outputType |-> "", json |-> Undefined]

From(wire, msg) == [wire EXCEPT !.src = msg.src]

(* faulty variant: the IR message is converted like an authored message *)
NativeWireConverted(msg) ==
  [Wire(msg.role, "string", msg.content, <<>>) EXCEPT !.origin = "native", !.src = msg.src]

(* return msg.nativeContent *)
NativeWire(msg) ==
  LET c == NativeContents[msg.nativeContent]
  IN [Wire(c.role, "string", c.content, <<>>) EXCEPT !.origin = "native", !.src = msg.src]

(* Caller-supplied history *)
HistoryMessage(role, kind, content, blocks, i) ==
  [Wire(role, kind, content, blocks) EXCEPT !.origin = "history", !.src = i]

IsSystemWire(m) == m.role = "system"
NotSystemWire(m) == m.role # "system"
(* faulty variant: no reordering *)
sortNothing(messages) == messages

sortSystemFirst(messages) == SelectSeq(messages, IsSystemWire) \o SelectSeq(messages, NotSystemWire)

IsWrapUserMsg(m) == m.isWrapUser
(* faulty variant: nothing is filtered out *)
AnyMsg(m) == TRUE

(* ir.filter((m) => !m.isWrapUser) *)
NotWrapUserMsg(m) == ~m.isWrapUser

(* faulty variant: the first match is taken *)
findIndex(messages, role) ==
  IF \E i \in 1..Len(messages) : messages[i].role = role
  THEN CHOOSE i \in 1..Len(messages) :
         messages[i].role = role /\ \A j \in 1..(i - 1) : messages[j].role # role
  ELSE 0

(* options.messages.findLastIndex((m) => m.role === role), counted from 1 *)
findLastIndex(messages, role) ==
  IF \E i \in 1..Len(messages) : messages[i].role = role
  THEN CHOOSE i \in 1..Len(messages) :
         messages[i].role = role /\ \A j \in (i + 1)..Len(messages) : messages[j].role # role
  ELSE 0

(* extractContent of the Anthropic adapter: no role check *)
extractContentAnthropic(msg) ==
  CASE msg.kind = "string" -> msg.content
    [] msg.kind = "array" ->
         Concat([i \in 1..Len(msg.blocks) |-> IF msg.blocks[i].type = "text" THEN msg.blocks[i].text ELSE <<>>])
    [] OTHER -> <<>>

(* extractContent of the OpenAI and AI SDK adapters *)
extractContent(msg) ==
  IF msg.role \notin {"user", "system", "assistant"} THEN <<>> ELSE extractContentAnthropic(msg)

(* faulty variant: the id is dropped *)
NoToolCallId(msg) == ""

(* msg.toolCallId || "" *)
toolCallIdOf(msg) == IF msg.toolCallId = "undefined" THEN "" ELSE msg.toolCallId

FileLabel(part) ==
  <<"[File: ", IF part.filename = "undefined" THEN "attachment" ELSE part.filename, " (", part.mimeType, ")]">>

----------------------------------------------------------------------------
(* OpenAI adapter *)

toOpenAIContentPart(part) ==
  CASE part.type = "text" -> [Block("text") EXCEPT !.text = part.text]
    [] part.type = "image" ->
         [Block("image_url") EXCEPT
            !.data = IF part.isUrl THEN <<part.data>> ELSE <<"data:", part.mimeType, ";base64,", part.data>>]
    [] OTHER -> [Block("text") EXCEPT !.text = FileLabel(part)]

toOpenAIMessage(msg) ==
  IF msg.isNative THEN NativeWire(msg)
  ELSE From(
    CASE msg.role = "tool" ->
           [Wire("tool", "string", msg.content, <<>>) EXCEPT
              !.tool_call_id = toolCallIdOf(msg)]
      [] msg.role = "assistant" /\ msg.toolCalls # <<>> ->
           [Wire("assistant", IF msg.content = <<>> THEN "null" ELSE "string", msg.content, <<>>) EXCEPT
              !.tool_calls = [i \in 1..Len(msg.toolCalls) |->
                                [id |-> msg.toolCalls[i].id, type |-> "function",
                                 name |-> msg.toolCalls[i].name,
                                 arguments |-> Stringify(msg.toolCalls[i].args)]]]
      [] msg.role = "assistant" -> Wire("assistant", "string", msg.content, <<>>)
      [] msg.role = "system" -> Wire("system", "string", msg.content, <<>>)
      [] msg.parts # <<>> ->
           Wire("user", "array", <<>>, [i \in 1..Len(msg.parts) |-> toOpenAIContentPart(msg.parts[i])])
      [] OTHER -> Wire("user", "string", msg.content, <<>>), msg)

----------------------------------------------------------------------------
(* AI SDK adapter *)

toAISDKContentPart(part) ==
  CASE part.type = "text" -> [Block("text") EXCEPT !.text = part.text]
    [] part.type = "image" ->
         IF part.isUrl
         THEN [Block("image") EXCEPT !.data = <<"URL", part.data>>]
         ELSE [Block("image") EXCEPT !.data = <<part.data>>, !.mediaType = part.mimeType]
    [] OTHER ->
         [Block("file") EXCEPT
            !.data = IF part.isUrl THEN <<"URL", part.data>> ELSE <<part.data>>,
            !.mediaType = part.mimeType]

(* faulty variant: the error flag is not looked at *)
toToolResultOutputPlain(msg) ==
  IF msg.toolResultJson.defined
  THEN [Block("tool-result") EXCEPT !.outputType = "json", !.json = msg.toolResultJson]
  ELSE [Block("tool-result") EXCEPT !.outputType = "text", !.text = msg.content]

toToolResultOutput(msg) ==
  IF msg.toolResultJson.defined
  THEN [Block("tool-result") EXCEPT
          !.outputType = IF msg.toolResultIsError THEN "error-json" ELSE "json",
          !.json = msg.toolResultJson]
  ELSE [Block("tool-result") EXCEPT
          !.outputType = IF msg.toolResultIsError THEN "error-text" ELSE "text",
          !.text = msg.content]

toAISDKMessage(msg) ==
  IF msg.isNative THEN NativeWire(msg)
  ELSE From(
    CASE msg.role = "tool" ->
           Wire("tool", "array", <<>>,
                <<[toToolResultOutput(msg) EXCEPT
                     !.id = toolCallIdOf(msg),
                     !.name = IF msg.toolName = "undefined" THEN "" ELSE msg.toolName]>>)
      [] msg.role = "assistant" /\ msg.toolCalls # <<>> ->
           Wire("assistant", "array", <<>>,
                (IF msg.content # <<>> THEN <<[Block("text") EXCEPT !.text = msg.content]>> ELSE <<>>)
                \o [i \in 1..Len(msg.toolCalls) |->
                      [Block("tool-call") EXCEPT
                         !.id = msg.toolCalls[i].id, !.name = msg.toolCalls[i].name,
                         !.args = msg.toolCalls[i].args]])
      [] msg.role = "assistant" -> Wire("assistant", "string", msg.content, <<>>)
      [] msg.role = "system" -> Wire("system", "string", msg.content, <<>>)
      [] msg.parts # <<>> ->
           Wire("user", "array", <<>>, [i \in 1..Len(msg.parts) |-> toAISDKContentPart(msg.parts[i])])
      [] OTHER -> Wire("user", "string", msg.content, <<>>), msg)


----------------------------------------------------------------------------
(* Anthropic adapter *)

toAnthropicContentBlock(part) ==
  CASE part.type = "text" -> [Block("text") EXCEPT !.text = part.text]
    [] part.type = "image" ->
         IF part.isUrl
         THEN [Block("image") EXCEPT !.data = <<"url", part.data>>]
         ELSE [Block("image") EXCEPT !.data = <<"base64", part.data>>, !.mediaType = part.mimeType]
    [] part.mimeType = "application/pdf" ->
         IF part.isUrl
         THEN [Block("document") EXCEPT !.data = <<"url", part.data>>]
         ELSE [Block("document") EXCEPT !.data = <<"base64", part.data>>, !.mediaType = "application/pdf"]
    [] OTHER -> [Block("text") EXCEPT !.text = FileLabel(part)]

(* toAnthropicMessage returns null for a system message: the empty list here *)
toAnthropicMessage(msg) ==
  IF msg.isNative THEN <<NativeWire(msg)>>
  ELSE IF msg.role = "system" THEN <<>>
  ELSE <<From(
    CASE msg.role = "tool" ->
           Wire("user", "array", <<>>,
                <<[Block("tool_result") EXCEPT
                     !.id = toolCallIdOf(msg),
                     !.text = msg.content]>>)
      [] msg.role = "assistant" /\ msg.toolCalls # <<>> ->
           Wire("assistant", "array", <<>>,
                (IF msg.content # <<>> THEN <<[Block("text") EXCEPT !.text = msg.content]>> ELSE <<>>)
                \o [i \in 1..Len(msg.toolCalls) |->
                      [Block("tool_use") EXCEPT
                         !.id = msg.toolCalls[i].id, !.name = msg.toolCalls[i].name,
                         !.input = IF "input" \in DOMAIN msg.toolCalls[i]
                                   THEN msg.toolCalls[i].input ELSE Undefined]])
      [] msg.role = "assistant" -> Wire("assistant", "string", msg.content, <<>>)
      [] msg.parts # <<>> ->
           Wire("user", "array", <<>>, [i \in 1..Len(msg.parts) |-> toAnthropicContentBlock(msg.parts[i])])
      [] OTHER -> Wire("user", "string", msg.content, <<>>), msg)>>

----------------------------------------------------------------------------
(* faulty variant: the contents are joined by a single newline *)
combineContentsTight(evaluated) ==
  Join([i \in 1..Len(evaluated) |-> evaluated[i].content], <<NL>>)

(* evaluated.map((e) => e.content).join("\n\n") *)
combineContents(evaluated) ==
  Join([i \in 1..Len(evaluated) |-> evaluated[i].content], <<NL, NL>>)

(* prompt(): the leaf mappers of the adapters *)
toMessage(format, msg) == IF format = "openai" THEN toOpenAIMessage(msg) ELSE toAISDKMessage(msg)

toPart(format, part) ==
  CASE format = "openai" -> toOpenAIContentPart(part)
    [] format = "ai-sdk" -> toAISDKContentPart(part)
    [] OTHER -> toAnthropicContentBlock(part)

(* faulty variant: the file parts stand before the text *)
buildUserMessageFilesFirst(content, parts, format) ==
  [(IF parts = <<>>
    THEN Wire("user", "string", content, <<>>)
    ELSE Wire("user", "array", <<>>,
              [i \in 1..Len(parts) |-> toPart(format, parts[i])]
              \o (IF content # <<>> THEN <<[Block("text") EXCEPT !.text = content]>> ELSE <<>>)))
   EXCEPT !.origin = "wrap-user"]

buildUserMessage(content, parts, format) ==
  [(IF parts = <<>>
    THEN Wire("user", "string", content, <<>>)
    ELSE Wire("user", "array", <<>>,
              (IF content # <<>> THEN <<[Block("text") EXCEPT !.text = content]>> ELSE <<>>)
              \o [i \in 1..Len(parts) |-> toPart(format, parts[i])]))
   EXCEPT !.origin = "wrap-user"]

(* faulty variant: the last user message is replaced in the caller's array *)
replacedInPlace(messages, lastUserIdx, message) == [messages EXCEPT ![lastUserIdx] = message]

(* options.messages.slice(0, lastUserIdx) and slice(lastUserIdx + 1) copy: *)
(* the caller's array is read and keeps its elements                       *)
sliced(messages, lastUserIdx, message) == messages

(* prompt() of the OpenAI and AI SDK adapters, which differ in their leaf   *)
(* mappers only                                                            *)
promptFlat(irs, opts, format) ==
  LET wrapUserMessages == SelectSeq(irs, IsWrapUserMsg)
      otherMessages == SelectSeq(irs, NotWrapUserMsg)
      others == [i \in 1..Len(otherMessages) |-> toMessage(format, otherMessages[i])]
      evaluated == [i \in 1..Len(wrapUserMessages) |-> evaluateWrapUserContent(wrapUserMessages[i], FALSE)]
      combinedContent == combineContents(evaluated)
      combinedParts == Concat([i \in 1..Len(evaluated) |-> evaluated[i].parts])
      combinedCalls == Concat([i \in 1..Len(evaluated) |-> evaluated[i].calls])
      lastUserIdx == findLastIndex(opts.messages, "user")
  IN IF wrapUserMessages # <<>> /\ opts.hasMessages
     THEN IF lastUserIdx >= 1
          THEN LET originalContent == extractContent(opts.messages[lastUserIdx])
                   processed == processWrapUsers(wrapUserMessages, originalContent, TRUE)
                   modifiedMessages ==
                     SubSeq(opts.messages, 1, lastUserIdx - 1)
                     \o <<buildUserMessage(processed.content, processed.parts, format)>>
                     \o SubSeq(opts.messages, lastUserIdx + 1, Len(opts.messages))
               IN [messages |-> sortSystemFirst(modifiedMessages \o others), calls |-> processed.calls,
                   history |-> sliced(opts.messages, lastUserIdx,
                                      buildUserMessage(processed.content, processed.parts, format))]
          ELSE [messages |-> sortSystemFirst(opts.messages
                                             \o <<buildUserMessage(combinedContent, combinedParts, format)>>
                                             \o others),
                calls |-> combinedCalls, history |-> opts.messages]
     ELSE IF wrapUserMessages # <<>>
          THEN [messages |-> sortSystemFirst(<<buildUserMessage(combinedContent, combinedParts, format)>> \o others),
                calls |-> combinedCalls, history |-> opts.messages]
          ELSE [messages |-> sortSystemFirst([i \in 1..Len(irs) |-> toMessage(format, irs[i])]),
                calls |-> <<>>, history |-> opts.messages]

promptOpenAI(irs, opts) == promptFlat(irs, opts, "openai")
promptAISDK(irs, opts) == promptFlat(irs, opts, "ai-sdk")

IsSystemIR(m) == m.role = "system" /\ ~m.isNative /\ ~m.isWrapUser
IsOtherIR(m) == ~m.isWrapUser /\ m.role # "system"

(* `system` is [defined, text]; undefined when there is no system message *)
NoSystem == [defined |-> FALSE, text |-> <<>>]

(* faulty variant: only the first system message is kept *)
firstSystemOnly(irs) ==
  LET systemMessages == SelectSeq(irs, IsSystemIR)
  IN IF systemMessages # <<>> THEN [defined |-> TRUE, text |-> systemMessages[1].content] ELSE NoSystem

(* faulty variant: the joined text is returned even without system messages *)
systemJoined(irs) ==
  LET systemMessages == SelectSeq(irs, IsSystemIR)
  IN [defined |-> TRUE,
      text |-> Join([i \in 1..Len(systemMessages) |-> systemMessages[i].content], <<NL, NL>>)]

systemOf(irs) ==
  LET systemMessages == SelectSeq(irs, IsSystemIR)
  IN IF systemMessages # <<>>
     THEN [defined |-> TRUE,
           text |-> Join([i \in 1..Len(systemMessages) |-> systemMessages[i].content], <<NL, NL>>)]
     ELSE NoSystem

promptAnthropic(irs, opts) ==
  LET sys == systemOf(irs)
      wrapUserMessages == SelectSeq(irs, IsWrapUserMsg)
      otherMessages == SelectSeq(irs, IsOtherIR)
      additionalMessages == Concat([i \in 1..Len(otherMessages) |-> toAnthropicMessage(otherMessages[i])])
      evaluated == [i \in 1..Len(wrapUserMessages) |-> evaluateWrapUserContent(wrapUserMessages[i], FALSE)]
      combinedContent == combineContents(evaluated)
      combinedParts == Concat([i \in 1..Len(evaluated) |-> evaluated[i].parts])
      combinedCalls == Concat([i \in 1..Len(evaluated) |-> evaluated[i].calls])
      lastUserIdx == findLastIndex(opts.messages, "user")
      invoked ==
        IF wrapUserMessages = <<>> THEN <<>>
        ELSE IF opts.hasMessages /\ lastUserIdx >= 1
        THEN processWrapUsers(wrapUserMessages, extractContentAnthropic(opts.messages[lastUserIdx]), TRUE).calls
        ELSE combinedCalls
      msgs ==
        IF wrapUserMessages # <<>> /\ opts.hasMessages
        THEN IF lastUserIdx >= 1
             THEN LET originalContent == extractContentAnthropic(opts.messages[lastUserIdx])
                      processed == processWrapUsers(wrapUserMessages, originalContent, TRUE)
                  IN SubSeq(opts.messages, 1, lastUserIdx - 1)
                     \o <<buildUserMessage(processed.content, processed.parts, "anthropic")>>
                     \o SubSeq(opts.messages, lastUserIdx + 1, Len(opts.messages))
                     \o additionalMessages
             ELSE opts.messages
                  \o <<buildUserMessage(combinedContent, combinedParts, "anthropic")>>
                  \o additionalMessages
        ELSE IF wrapUserMessages # <<>>
             THEN <<buildUserMessage(combinedContent, combinedParts, "anthropic")>> \o additionalMessages
             ELSE additionalMessages
      history ==
        IF wrapUserMessages # <<>> /\ opts.hasMessages /\ lastUserIdx >= 1
        THEN LET processed == processWrapUsers(wrapUserMessages,
                                               extractContentAnthropic(opts.messages[lastUserIdx]), TRUE)
             IN sliced(opts.messages, lastUserIdx,
                       buildUserMessage(processed.content, processed.parts, "anthropic"))
        ELSE opts.messages
  IN [system |-> sys, messages |-> msgs, calls |-> invoked, history |-> history]

----------------------------------------------------------------------------
(* The adapter calls.  renderToIR has run (phase "ir"); the caller passes   *)
(* no options, or options.messages.                                        *)

(* messages is the history as the caller passes it, callerArray the        *)
(* caller's array object as it is once the call has returned               *)
NoOptions == [messages |-> <<>>, hasMessages |-> FALSE, callerArray |-> <<>>]
WithMessages(history) == [messages |-> history, hasMessages |-> TRUE, callerArray |-> history]

PromptOpenAI(opts) ==
  /\ phase = "ir"
  /\ phase' = "done"
  /\ adapter' = "openai"
  /\ LET result == promptOpenAI(ir, opts)
     IN /\ out' = result.messages /\ calls' = result.calls
        /\ options' = [opts EXCEPT !.callerArray = result.history]
  /\ system' = NoSystem
  /\ UNCHANGED <<input, frames, lists, ir, runs>>

PromptAISDK(opts) ==
  /\ phase = "ir"
  /\ phase' = "done"
  /\ adapter' = "ai-sdk"
  /\ LET result == promptAISDK(ir, opts)
     IN /\ out' = result.messages /\ calls' = result.calls
        /\ options' = [opts EXCEPT !.callerArray = result.history]
  /\ system' = NoSystem
  /\ UNCHANGED <<input, frames, lists, ir, runs>>

PromptAnthropic(opts) ==
  /\ phase = "ir"
  /\ phase' = "done"
  /\ adapter' = "anthropic"
  /\ LET result == promptAnthropic(ir, opts)
     IN /\ out' = result.messages /\ system' = result.system /\ calls' = result.calls
        /\ options' = [opts EXCEPT !.callerArray = result.history]
  /\ UNCHANGED <<input, frames, lists, ir, runs>>

----------------------------------------------------------------------------
(* Specifications *)

TextCount == Cardinality({i \in 1..Len(input) : input[i].k = "text"})
NextLetter == LetterTexts[TextCount + 1]
NextUpper == UpperTexts[TextCount + 1]

ToolCallProps(id) == [id |-> id, name |-> "f", input |-> Object(<<"k">>)]

(* Histories of at most n messages drawn from pool *)
Histories(pool, n) ==
  {[i \in 1..Len(h) |-> [h[i] EXCEPT !.src = i]] : h \in UNION {[1..k -> pool] : k \in 0..n}}

HistoryUserQ == HistoryMessage("user", "string", <<"Q">>, <<>>, 0)
HistoryUserLines == HistoryMessage("user", "string", <<"Q", NL, NL, "R">>, <<>>, 0)
HistoryAssistant == HistoryMessage("assistant", "string", <<"Z">>, <<>>, 0)
HistorySystem == HistoryMessage("system", "string", <<"Y">>, <<>>, 0)

(* The whole walker: every element kind, any nesting *)
NextWalk ==
  \/ (Room(MaxNodes) /\ \E t \in Texts : TextLeaf(t))
  \/ (Room(MaxNodes) /\ FunctionNode(1))
  \/ (Room(MaxNodes) /\ TransparentEl("llm:fragment"))
  \/ (Room(MaxNodes) /\ NativeEl(1))
  \/ (Room(MaxNodes) /\ \E mode \in Modes : WrapUserEl("x", mode))
  \/ (Room(MaxNodes) /\ \E n \in Indents, inline \in BOOLEAN : GroupEl("x", n, inline))
  \/ (Room(MaxNodes) /\ \E id \in {"t1", "t2"} : ToolCallEl(ToolCallProps(id)))
  \/ (Room(MaxNodes) /\ \E type \in MESSAGE_TYPES : MessageEl(type, MessageProps(type, "t1")))
  \/ (Room(MaxNodes) /\ FileEl(CHOOSE p \in FileProps : p.type = "image"))
  \/ (Room(MaxNodes) /\ SkippedNode(Tok("text", "", "", 0, <<"a">>), FALSE))
  \/ (Room(MaxNodes) /\ SkippedNode(Tok("llm:user", "", "", 0, <<>>), TRUE))
  \/ CloseElement
  \/ RenderToIR

SpecWalk == Init /\ [][NextWalk]_vars

(* Message-level prompts through the three adapters.  The i-th ToolResult  *)
(* and the i-th ToolCall carry the i-th id.                                *)
CountOf(kind) == Cardinality({i \in 1..Len(input) : input[i].k = kind})
ResultIds == <<"r1", "r2", "r3", "r4", "r5", "r6">>
CallIds == <<"c1", "c2", "c3", "c4", "c5", "c6">>

AtTopLevel == frames = <<>>
InsideElement == frames # <<>>

MsgOptions == {NoOptions} \cup {WithMessages(h) : h \in Histories({HistoryUserQ}, 1)}

NextMsgs ==
  \/ (Room(MaxMsgNodes) /\ InsideElement /\ TextLeaf(NextLetter))
  \/ (Room(MaxMsgNodes) /\ AtTopLevel /\ NativeEl(2))
  \/ (Room(MaxMsgNodes) /\ AtTopLevel /\ WrapUserEl("user", "suffix"))
  \/ (Room(MaxMsgNodes) /\ AtTopLevel /\ ToolCallEl(ToolCallProps(CallIds[CountOf("llm:tool-call") + 1])))
  \/ (Room(MaxMsgNodes) /\ AtTopLevel /\ \E type \in MESSAGE_TYPES :
         MessageEl(type, MessageProps(type, ResultIds[CountOf("llm:tool-result") + 1])))
  \/ CloseElement
  \/ RenderToIR
  \/ (phase = "ir" /\ \E opts \in MsgOptions : PromptOpenAI(opts))
  \/ (phase = "ir" /\ \E opts \in MsgOptions : PromptAISDK(opts))
  \/ (phase = "ir" /\ \E opts \in MsgOptions : PromptAnthropic(opts))

SpecMsgs == Init /\ [][NextMsgs]_vars

(* WrapUser prompts against a caller-supplied history of at most one message *)
WrapOptions ==
  {NoOptions} \cup {WithMessages(h) : h \in Histories({HistoryUserQ, HistoryUserLines, HistoryAssistant}, 1)}

NextWrap ==
  \/ (Room(MaxWrapNodes) /\ InsideElement /\ TextLeaf(NextUpper))
  \/ (Room(MaxWrapNodes) /\ InsideElement /\ \E f \in TextFns : FunctionNode(f))
  \/ (Room(MaxWrapNodes) /\ AtTopLevel /\ \E tag \in Tags, mode \in Modes : WrapUserEl(tag, mode))
  \/ CloseElement
  \/ RenderToIR
  \/ (phase = "ir" /\ \E opts \in WrapOptions : PromptOpenAI(opts))
  \/ (phase = "ir" /\ \E opts \in WrapOptions : PromptAISDK(opts))
  \/ (phase = "ir" /\ \E opts \in WrapOptions : PromptAnthropic(opts))

SpecWrap == Init /\ [][NextWrap]_vars

(* Authored messages after a caller-supplied history of several messages *)
HistOptions ==
  {NoOptions} \cup {WithMessages(h) : h \in Histories({HistoryUserQ, HistoryAssistant, HistorySystem}, MaxHistLen)}

NextHist ==
  \/ (Room(MaxHistNodes) /\ InsideElement /\ TextLeaf(NextUpper))
  \/ (Room(MaxHistNodes) /\ InsideElement /\ \E f \in TextFns : FunctionNode(f))
  \/ (Room(MaxHistNodes) /\ AtTopLevel /\ WrapUserEl("user", "suffix"))
  \/ (Room(MaxHistNodes) /\ AtTopLevel /\ \E type \in {"llm:system", "llm:user"} : MessageEl(type, NoProps))
  \/ CloseElement
  \/ RenderToIR
  \/ (phase = "ir" /\ \E opts \in HistOptions : PromptOpenAI(opts))
  \/ (phase = "ir" /\ \E opts \in HistOptions : PromptAISDK(opts))
  \/ (phase = "ir" /\ \E opts \in HistOptions : PromptAnthropic(opts))

SpecHist == Init /\ [][NextHist]_vars

(* WrapUser prompts whose functions return File elements *)
FileOptions ==
  {NoOptions} \cup {WithMessages(h) : h \in Histories({HistoryUserQ, HistoryAssistant}, MaxHistory)}

NextFiles ==
  \/ (Room(MaxFileNodes) /\ InsideElement /\ TextLeaf(NextUpper))
  \/ (Room(MaxFileNodes) /\ InsideElement /\ \E f \in FileFns : FunctionNode(f))
  \/ (Room(MaxFileNodes) /\ AtTopLevel /\ \E mode \in Modes : WrapUserEl("user", mode))
  \/ CloseElement
  \/ RenderToIR
  \/ (phase = "ir" /\ \E opts \in FileOptions : PromptOpenAI(opts))
  \/ (phase = "ir" /\ \E opts \in FileOptions : PromptAISDK(opts))
  \/ (phase = "ir" /\ \E opts \in FileOptions : PromptAnthropic(opts))

SpecFiles == Init /\ [][NextFiles]_vars

(* Native markers among System, User and Assistant messages *)
NextNative ==
  \/ (Room(MaxNativeNodes) /\ InsideElement /\ TextLeaf(NextLetter))
  \/ (Room(MaxNativeNodes) /\ \E c \in 1..Len(NativeContents) : NativeEl(c))
  \/ (Room(MaxNativeNodes) /\ AtTopLevel /\ \E type \in {"llm:system", "llm:user", "llm:assistant"} :
         MessageEl(type, NoProps))
  \/ CloseElement
  \/ RenderToIR
  \/ (phase = "ir" /\ \E opts \in MsgOptions : PromptOpenAI(opts))
  \/ (phase = "ir" /\ \E opts \in MsgOptions : PromptAISDK(opts))
  \/ (phase = "ir" /\ \E opts \in MsgOptions : PromptAnthropic(opts))

SpecNative == Init /\ [][NextNative]_vars

(* ToolResult elements with their children *)
NextResults ==
  \/ /\ Room(MaxResultNodes)
     /\ AtTopLevel
     /\ \E n \in 0..(MaxResultNodes - NodeCount - 1), json \in {0, 1} :
          \E children \in [1..n -> ResultChildren] :
            ToolResultEl(ResultIds[CountOf("llm:tool-result") + 1], json, children)
  \/ RenderToIR

SpecResults == Init /\ [][NextResults]_vars

(* ToolCall elements with an input object, ToolResult elements with the   *)
(* json and isError props, and Assistant messages                          *)
ToolInputs == {Object(<<>>), Object(<<"k">>)}
ToolResultProps(id, json, isError) == [MessageProps("llm:tool-result", id) EXCEPT !.json = json, !.isError = isError]

NextTools ==
  \/ (Room(MaxToolNodes) /\ InsideElement /\ TextLeaf(NextLetter))
  \/ (Room(MaxToolNodes) /\ AtTopLevel /\ \E inp \in ToolInputs :
         ToolCallEl([ToolCallProps(CallIds[CountOf("llm:tool-call") + 1]) EXCEPT !.input = inp]))
  \/ (Room(MaxToolNodes) /\ AtTopLevel /\ \E json \in {Undefined, Object(<<"j">>)}, isError \in BOOLEAN :
         MessageEl("llm:tool-result", ToolResultProps(ResultIds[CountOf("llm:tool-result") + 1], json, isError)))
  \/ (Room(MaxToolNodes) /\ AtTopLevel /\ MessageEl("llm:assistant", NoProps))
  \/ CloseElement
  \/ RenderToIR
  \/ (phase = "ir" /\ PromptOpenAI(NoOptions))
  \/ (phase = "ir" /\ PromptAISDK(NoOptions))
  \/ (phase = "ir" /\ PromptAnthropic(NoOptions))

SpecTools == Init /\ [][NextTools]_vars

(* Two interleaved renderToIR calls *)
NextRuns ==
  \/ \E c \in Callers, tree \in RunTrees : CallRender(c, tree)
  \/ \E c \in Callers : StepRender(c)
  \/ \E c \in Callers : ReturnRender(c)

SpecRuns == Init /\ [][NextRuns]_vars

(* WrapUser prompts with File elements written as children of the marker *)
NextStatic ==
  \/ (Room(MaxStaticNodes) /\ InsideElement /\ TextLeaf(NextUpper))
  \/ (Room(MaxStaticNodes) /\ InsideElement /\ \E props \in FileProps : FileEl(props))
  \/ (Room(MaxStaticNodes) /\ AtTopLevel /\ \E mode \in Modes : WrapUserEl("user", mode))
  \/ CloseElement
  \/ RenderToIR
  \/ (phase = "ir" /\ \E opts \in FileOptions : PromptOpenAI(opts))
  \/ (phase = "ir" /\ \E opts \in FileOptions : PromptAISDK(opts))
  \/ (phase = "ir" /\ \E opts \in FileOptions : PromptAnthropic(opts))

SpecStatic == Init /\ [][NextStatic]_vars

(* Functions at the top level, inside messages, and inside fragments and   *)
(* Groups within wrap-user markers                                         *)
NextNested ==
  \/ (Room(MaxNestedNodes) /\ InsideElement /\ TextLeaf(NextUpper))
  \/ (Room(MaxNestedNodes) /\ \E f \in TextFns : FunctionNode(f))
  \/ (Room(MaxNestedNodes) /\ AtTopLevel /\ WrapUserEl("user", "prefix"))
  \/ (Room(MaxNestedNodes) /\ AtTopLevel /\ MessageEl("llm:user", NoProps))
  \/ (Room(MaxNestedNodes) /\ InsideElement /\ TransparentEl("llm:fragment"))
  \/ (Room(MaxNestedNodes) /\ HasCurrentMessage /\ \E inline \in BOOLEAN : GroupEl("x", 1, inline))
  \/ CloseElement
  \/ RenderToIR
  \/ (phase = "ir" /\ \E opts \in MsgOptions : PromptOpenAI(opts))
  \/ (phase = "ir" /\ \E opts \in MsgOptions : PromptAISDK(opts))
  \/ (phase = "ir" /\ \E opts \in MsgOptions : PromptAnthropic(opts))

SpecNested == Init /\ [][NextNested]_vars

(* Block Groups nested inside one User message *)
GroupTexts == {<<"a">>, <<"a", NL, NL, "b">>}

NextGroups ==
  \/ (Room(MaxGroupNodes) /\ AtTopLevel /\ input = <<>> /\ MessageEl("llm:user", NoProps))
  \/ (Room(MaxGroupNodes) /\ InsideElement /\ \E n \in Indents : GroupEl("x", n, FALSE))
  \/ (Room(MaxGroupNodes) /\ InsideElement /\ \E t \in GroupTexts : TextLeaf(t))
  \/ CloseElement
  \/ RenderToIR

SpecGroups == Init /\ [][NextGroups]_vars

----------------------------------------------------------------------------
(* Properties *)

OpeningKinds == MESSAGE_TYPES \cup {"llm:native", "llm:wrap-user", "llm:tool-call"}

OrderedBySrc(ms) == \A i, j \in 1..Len(ms) : i < j => ms[i].src < ms[j].src

(* every entry of a list that survives the step stays at its index *)
AppendOnlyStep ==
  phase = "walk" =>
    \A d \in 1..Len(lists') :
      d <= Len(lists) =>
        /\ Len(lists'[d]) >= Len(lists[d])
        /\ \A i \in 1..Len(lists[d]) :
             /\ lists'[d][i].src = lists[d][i].src
             /\ lists'[d][i].role = lists[d][i].role

ResultInMarkerOrder ==
  /\ OrderedBySrc(lists[1])
  /\ \A i \in 1..Len(lists[1]) :
       /\ lists[1][i].src \in 1..Len(input)
       /\ input[lists[1][i].src].k \in OpeningKinds
  /\ phase # "walk" =>
       /\ Len(ir) = Len(lists[1])
       /\ \A i \in 1..Len(ir) : ir[i].src = lists[1][i].src /\ ir[i].role = lists[1][i].role

(* C1: during the walk the in-progress message list is only appended to    *)
(* (no entry is removed or moved), so the IR messages of the result stand  *)
(* in the order in which their opening markers were encountered.           *)
C1_AppendOnly == [][AppendOnlyStep]_vars /\ []ResultInMarkerOrder

C1_Witness ==
  /\ phase = "ir"
  /\ Len(ir) = 3
  /\ ir[1].role = "assistant"
  /\ ir[2].role = "system"
  /\ ir[3].role = "user"

ToolCallStep ==
  /\ phase = "walk"
  /\ Len(input') = Len(input) + 1
  /\ input'[Len(input')].k = "llm:tool-call"

CallIdsOf(msg) == [i \in 1..Len(msg.toolCalls) |-> msg.toolCalls[i].id]

ToolCallEffect ==
  LET ms == lists[1]
      after == lists'[1]
      id == input'[Len(input')].a
  IN IF ms # <<>> /\ ms[Len(ms)].role = "assistant"
     THEN /\ Len(after) = Len(ms)
          /\ CallIdsOf(after[Len(ms)]) = Append(CallIdsOf(ms[Len(ms)]), id)
          /\ \A i \in 1..(Len(ms) - 1) : after[i] = ms[i]
     ELSE /\ Len(after) = Len(ms) + 1
          /\ after[Len(after)].role = "assistant"
          /\ CallIdsOf(after[Len(after)]) = <<id>>
          /\ \A i \in 1..Len(ms) : after[i] = ms[i]

(* the maximal runs of tool-call markers of the input that no message-      *)
(* opening marker separates, as lists of call ids                           *)
RECURSIVE RunsFrom(_, _)
RunsFrom(i, cur) ==
  LET flushed == IF cur = <<>> THEN <<>> ELSE <<cur>>
  IN IF i > Len(input) THEN flushed
     ELSE IF input[i].k = "llm:tool-call" THEN RunsFrom(i + 1, Append(cur, input[i].a))
     ELSE IF input[i].k \in OpeningKinds THEN flushed \o RunsFrom(i + 1, <<>>)
     ELSE RunsFrom(i + 1, cur)

HasToolCalls(m) == m.toolCalls # <<>>

RunsMerged ==
  phase # "walk" =>
    LET calling == SelectSeq(ir, HasToolCalls)
    IN /\ [i \in 1..Len(calling) |-> CallIdsOf(calling[i])] = RunsFrom(1, <<>>)
       /\ \A i \in 1..Len(calling) : calling[i].role = "assistant"

(* C2: a tool-call marker extends the last in-progress message iff that    *)
(* message has role assistant, and otherwise opens a new assistant message *)
(* at the end; so k consecutive tool-call markers yield one assistant      *)
(* message with k calls in authored order, and tool calls separated by a   *)
(* message marker land in distinct assistant messages.                     *)
C2_ToolCallMerge == [][ToolCallStep => ToolCallEffect]_vars /\ []RunsMerged

C2_Witness ==
  /\ phase = "ir"
  /\ Len(ir) = 3
  /\ CallIdsOf(ir[1]) = <<"c1", "c2">>
  /\ ir[2].role = "tool"
  /\ CallIdsOf(ir[3]) = <<"c3">>

Positions(kind) == {p \in 1..Len(input) : input[p].k = kind}

(* the text of the children of a marker whose children are text leaves *)
RECURSIVE TextAfter(_)
TextAfter(q) ==
  IF q > Len(input) \/ input[q].k # "text" THEN <<>> ELSE input[q].t \o TextAfter(q + 1)

MarkerContent(p) == Trim(TextAfter(p + 1))

RECURSIVE SystemContentsFrom(_)
SystemContentsFrom(p) ==
  IF p > Len(input) THEN <<>>
  ELSE (IF input[p].k = "llm:system" THEN <<MarkerContent(p)>> ELSE <<>>) \o SystemContentsFrom(p + 1)

AuthoredSystem == Join(SystemContentsFrom(1), <<NL, NL>>)

(* C3: renderToIR combines all System markers into one system-role IR      *)
(* message, placed first, whose content is the System contents in authored *)
(* order joined by a blank line; the other messages keep their relative    *)
(* order after it.                                                         *)
C3_SystemsCombined ==
  (phase = "ir" /\ Positions("llm:system") # {} /\ Positions("llm:native") = {}) =>
    /\ ir[1].role = "system"
    /\ ir[1].content = AuthoredSystem
    /\ \A i \in 2..Len(ir) : ir[i].src \notin Positions("llm:system")
    /\ OrderedBySrc(Tail(ir))

FlatDone == phase = "done" /\ adapter \in {"openai", "ai-sdk"}
IsAuthored(w) == w.origin \in {"jsx", "native"}

SystemsPrecede ==
  \A i, j \in 1..Len(out) : (i < j /\ out[j].role = "system") => out[i].role = "system"

GroupsKeepOrder ==
  LET authored == SelectSeq(out, IsAuthored)
  IN /\ OrderedBySrc(SelectSeq(authored, IsSystemWire))
     /\ OrderedBySrc(SelectSeq(authored, NotSystemWire))

EachMessageRetained ==
  \A p \in 1..Len(input) :
    input[p].k \in MESSAGE_TYPES \cup {"llm:native"} =>
      /\ Cardinality({i \in 1..Len(out) : IsAuthored(out[i]) /\ out[i].src = p}) = 1
      /\ input[p].k \in MESSAGE_TYPES =>
           \E i \in 1..Len(out) :
             /\ IsAuthored(out[i])
             /\ out[i].src = p
             /\ out[i].role = getRoleFromType(input[p].k)

C5_SingleSystemMessage ==
  (/\ FlatDone
   /\ Cardinality(Positions("llm:system")) >= 2
   /\ Positions("llm:native") = {}
   /\ Positions("llm:wrap-user") = {}
   /\ ~options.hasMessages) =>
    /\ out[1].role = "system"
    /\ out[1].content = AuthoredSystem
    /\ \A i \in 2..Len(out) : out[i].role # "system"
    /\ Len(out) = Cardinality({i \in 1..Len(ir) : ir[i].role # "system"}) + 1

(* C6: the Anthropic output never holds a message derived from a System    *)
(* marker; its system field is the contents of all System markers in       *)
(* authored order joined by a blank line, and it is undefined exactly when *)
(* the input has no System marker, with or without wrap-user markers and   *)
(* history.                                                                *)
C6_AnthropicSystem ==
  (phase = "done" /\ adapter = "anthropic") =>
    /\ \A i \in 1..Len(out) : out[i].origin # "history" => out[i].src \notin Positions("llm:system")
    /\ system.defined <=> Positions("llm:system") # {}
    /\ system.defined => system.text = AuthoredSystem

C6_Witness ==
  /\ phase = "done"
  /\ adapter = "anthropic"
  /\ system.defined
  /\ system.text = <<"a", NL, NL, "b">>
  /\ out = <<>>

FromToolResult(p) == {i \in 1..Len(out) : out[i].origin = "jsx" /\ out[i].src = p}

ToolResultWire(w, id) ==
  CASE adapter = "openai" -> w.role = "tool" /\ w.tool_call_id = id
    [] adapter = "ai-sdk" ->
         /\ w.role = "tool"
         /\ Len(w.blocks) = 1
         /\ w.blocks[1].type = "tool-result"
         /\ w.blocks[1].id = id
    [] OTHER ->
         /\ w.role = "user"
         /\ w.kind = "array"
         /\ Len(w.blocks) = 1
         /\ w.blocks[1].type = "tool_result"
         /\ w.blocks[1].id = id

(* C7: every Tool-Result marker yields a wire message of its own carrying  *)
(* the marker's tool-call id, with role tool in the OpenAI and AI SDK      *)
(* outputs and role user holding one tool_result block in the Anthropic    *)
(* output (never role tool), in authored order.                            *)
C7_ToolResultRole ==
  phase = "done" =>
    /\ \A p \in Positions("llm:tool-result") :
         /\ Cardinality(FromToolResult(p)) = 1
         /\ \A i \in FromToolResult(p) : ToolResultWire(out[i], input[p].a)
    /\ \A p, q \in Positions("llm:tool-result") :
         p < q => \A i \in FromToolResult(p), j \in FromToolResult(q) : i < j
    /\ adapter = "anthropic" => \A i \in 1..Len(out) : out[i].origin = "jsx" => out[i].role # "tool"

C7_Witness ==
  /\ phase = "done"
  /\ adapter = "anthropic"
  /\ Len(out) = 2
  /\ ToolResultWire(out[1], "r1")
  /\ ToolResultWire(out[2], "r2")

(* text of a user wire message built by buildUserMessage *)
WrapText(w) ==
  IF w.kind = "string" THEN w.content
  ELSE IF w.blocks # <<>> /\ w.blocks[1].type = "text" THEN w.blocks[1].text
  ELSE <<>>

(* C8: with history [user "Q"] and a single suffix-mode wrap-user marker   *)
(* of the default tag with content "A", the OpenAI output is exactly one   *)
(* user message whose content is "<user>\nQ\n</user>\n\nA".                *)
C8_RoundTripSuffix ==
  (/\ phase = "done"
   /\ adapter = "openai"
   /\ options = WithMessages(<<[HistoryUserQ EXCEPT !.src = 1]>>)
   /\ input = <<Tok("llm:wrap-user", "user", "suffix", 0, <<>>),
                Tok("text", "", "", 0, <<"A">>),
                Tok("close", "", "", 0, <<>>)>>) =>
    /\ Len(out) = 1
    /\ out[1].role = "user"
    /\ out[1].kind = "string"
    /\ out[1].content = OpenTag("user") \o <<NL, "Q", NL>> \o CloseTag("user") \o <<NL, NL, "A">>

Replaced ==
  /\ phase = "done"
  /\ options.hasMessages
  /\ findLastIndex(options.messages, "user") >= 1
  /\ Positions("llm:wrap-user") # {}

Replacement == out[CHOOSE i \in 1..Len(out) : out[i].origin = "wrap-user"]

OriginalText == extractContent(options.messages[findLastIndex(options.messages, "user")])

WrapUsers == SelectSeq(ir, IsWrapUserMsg)
IsPrefixMode(m) == m.wrapUserMode = "prefix"
IsSuffixMode(m) == m.wrapUserMode = "suffix"
EvaluatedContents(ms) == [i \in 1..Len(ms) |-> evaluateWrapUserContent(ms[i], TRUE).content]

(* a text without its indentation *)
NotSpace(c) == c # SP
Unindented(s) == SelectSeq(s, NotSpace)

LastWrapTag == input[CHOOSE p \in Positions("llm:wrap-user") : \A q \in Positions("llm:wrap-user") : q <= p].a

(* C9: when the history holds a user message, the text of the replacement  *)
(* user message is the evaluated contents of the prefix-mode wrap-user     *)
(* messages in authored order, then the wrapped original text, then the    *)
(* evaluated contents of the suffix-mode wrap-user messages in authored    *)
(* order, joined by blank lines, however the modes are interleaved.        *)
C9_PrefixWrappedSuffix ==
  Replaced =>
    /\ Cardinality({i \in 1..Len(out) : out[i].origin = "wrap-user"}) = 1
    /\ Unindented(WrapText(Replacement)) =
         Join(EvaluatedContents(SelectSeq(WrapUsers, IsPrefixMode))
              \o <<OpenTag(LastWrapTag) \o <<NL>> \o Unindented(OriginalText) \o <<NL>> \o CloseTag(LastWrapTag)>>
              \o EvaluatedContents(SelectSeq(WrapUsers, IsSuffixMode)), <<NL, NL>>)

C9_Witness ==
  /\ Replaced
  /\ Len(WrapUsers) = 2
  /\ WrapUsers[1].wrapUserMode = "suffix"
  /\ WrapUsers[2].wrapUserMode = "prefix"
  /\ WrapUsers[1].content = <<"A">>
  /\ WrapUsers[2].content = <<"B">>
  /\ OriginalText = <<"Q", NL, NL, "R">>

Contains(s, w) == \E i \in 0..(Len(s) - Len(w)) : SubSeq(s, i + 1, i + Len(w)) = w

(* C10: the original text is wrapped in the tag of the last wrap-user      *)
(* marker in authored order, whatever that marker's mode, and the tag of   *)
(* no earlier wrap-user marker appears as a wrapper in the output.         *)
C10_LastTagWins ==
  Replaced =>
    /\ Contains(Unindented(WrapText(Replacement)),
                OpenTag(LastWrapTag) \o <<NL>> \o Unindented(OriginalText)
                \o <<NL>> \o CloseTag(LastWrapTag))
    /\ \A tag \in Tags \ {LastWrapTag} :
         /\ ~Contains(WrapText(Replacement), OpenTag(tag))
         /\ ~Contains(WrapText(Replacement), CloseTag(tag))

C10_Witness ==
  /\ Replaced
  /\ Len(WrapUsers) = 2
  /\ WrapUsers[1].wrapUserTag = "user"
  /\ WrapUsers[1].wrapUserMode = "suffix"
  /\ WrapUsers[2].wrapUserTag = "x"
  /\ WrapUsers[2].wrapUserMode = "prefix"
  /\ OriginalText = <<"Q">>

UserIndices == {i \in 1..Len(options.messages) : options.messages[i].role = "user"}
LastUserIndex == CHOOSE i \in UserIndices : \A j \in UserIndices : j <= i

(* ms is the history hist with the message of index LastUserIndex         *)
(* replaced, followed by authored messages only                            *)
HistoryThenAuthored(ms, hist) ==
  /\ Len(ms) >= Len(hist)
  /\ \A i \in 1..Len(hist) :
       IF hist[i].src = LastUserIndex THEN ms[i].origin = "wrap-user" ELSE ms[i] = hist[i]
  /\ \A i \in (Len(hist) + 1)..Len(ms) : IsAuthored(ms[i])

AuthoredAllEmitted ==
  Cardinality({i \in 1..Len(out) : IsAuthored(out[i])})
    = Cardinality({p \in 1..Len(input) :
                     /\ input[p].k \in MESSAGE_TYPES
                     /\ adapter = "anthropic" => input[p].k # "llm:system"})

(* C11 as stated: with a user message in the history, the output of every  *)
(* adapter is the history with exactly its last user message replaced, at  *)
(* the same indices, followed by the authored non-wrap-user messages.      *)
C11_LastUserReplaced == Replaced => HistoryThenAuthored(out, options.messages)

(* C11, amended: this holds as stated for the Anthropic adapter; for the    *)
(* OpenAI and AI SDK adapters it holds up to the system-first re-sort: the *)
(* system messages of history and input come first, and the other history  *)
(* messages keep their order, the replacement standing in place of the     *)
(* last user message, followed by the other authored messages.             *)
C11_LastUserReplacedSorted ==
  Replaced =>
    /\ AuthoredAllEmitted
    /\ IF adapter = "anthropic"
       THEN HistoryThenAuthored(out, options.messages)
       ELSE /\ out = SelectSeq(out, IsSystemWire) \o SelectSeq(out, NotSystemWire)
            /\ HistoryThenAuthored(SelectSeq(out, IsSystemWire), SelectSeq(options.messages, IsSystemWire))
            /\ HistoryThenAuthored(SelectSeq(out, NotSystemWire), SelectSeq(options.messages, NotSystemWire))

C11_Witness ==
  /\ Replaced
  /\ adapter = "openai"
  /\ Len(options.messages) = 2
  /\ options.messages[1].role = "user"
  /\ options.messages[2].role = "system"
  /\ Len(out) = 4
  /\ out[1] = options.messages[2]
  /\ out[2].role = "system" /\ out[2].origin = "jsx"
  /\ out[3].origin = "wrap-user"
  /\ out[4].role = "user" /\ out[4].origin = "jsx"

(* the function children of the input, in authored order *)
RECURSIVE FunctionsFrom(_)
FunctionsFrom(q) ==
  IF q > Len(input) THEN <<>>
  ELSE (IF input[q].k = "function" THEN <<input[q].n>> ELSE <<>>) \o FunctionsFrom(q + 1)

HistoryHasUser ==
  options.hasMessages /\ \E i \in 1..Len(options.messages) : options.messages[i].role = "user"

(* C12: no stored function is invoked during renderToIR, and one adapter   *)
(* call invokes every function stored for a wrap-user marker exactly once, *)
(* with hasUser true iff a history was supplied and holds a user message.  *)
C12_InvokedOnce ==
  /\ phase # "done" => calls = <<>>
  /\ phase = "done" =>
       /\ [i \in 1..Len(calls) |-> calls[i].fn] = FunctionsFrom(1)
       /\ \A i \in 1..Len(calls) : calls[i].hasUser = HistoryHasUser

C12_Witness ==
  /\ phase = "done"
  /\ Len(calls) = 2
  /\ calls[1].fn = 2
  /\ calls[2].fn = 1
  /\ calls[1].src # calls[2].src
  /\ calls[1].hasUser
  /\ Len(options.messages) = 1

(* the children of a wrap-user marker as authored, each function child    *)
(* standing for the text of its result                                     *)
RECURSIVE ChildrenText(_, _)
ChildrenText(q, hasUser) ==
  IF q > Len(input) \/ input[q].k = "close" THEN <<>>
  ELSE (CASE input[q].k = "text" -> input[q].t
          [] input[q].k = "function" -> EvaluatedResult(CallFn(input[q].n, hasUser)).content
          [] OTHER -> <<>>)
       \o ChildrenText(q + 1, hasUser)

(* C13: the result of every function child of a wrap-user marker stands at *)
(* the position the function has among the children: the evaluated content *)
(* is the static texts and the function results in authored child order,   *)
(* and that content is what the adapter puts into its user message.        *)
C13_ResultsInChildOrder ==
  /\ phase # "walk" =>
       \A k \in 1..Len(ir) :
         ir[k].isWrapUser =>
           \A hasUser \in BOOLEAN :
             evaluateWrapUserContent(ir[k], hasUser).content = ChildrenText(ir[k].src + 1, hasUser)
  /\ phase = "done" =>
       \A p \in Positions("llm:wrap-user") :
         Contains(WrapText(Replacement), ChildrenText(p + 1, HistoryHasUser))

C13_Witness ==
  /\ phase = "done"
  /\ HistoryHasUser
  /\ Len(ir) = 1
  /\ ir[1].wrapUserConditions = <<1, 2>>
  /\ Contains(WrapText(Replacement), <<"X", "A", "J">>)

MessageMarkerRole(kind) == IF kind = "llm:wrap-user" THEN "user" ELSE getRoleFromType(kind)

(* C14: every User, Assistant, Tool-Result and wrap-user marker of the     *)
(* input tree, wherever it is nested, yields exactly one IR message of its *)
(* role (a wrap-user marker: a user message with isWrapUser set).          *)
C14_EveryMarkerOneMessage ==
  phase = "ir" =>
    \A p \in 1..Len(input) :
      input[p].k \in {"llm:user", "llm:assistant", "llm:tool-result", "llm:wrap-user"} =>
        Cardinality({i \in 1..Len(ir) :
                       /\ ir[i].src = p
                       /\ ir[i].role = MessageMarkerRole(input[p].k)
                       /\ ir[i].isWrapUser = (input[p].k = "llm:wrap-user")}) = 1

WrapUserFields == {"isWrapUser", "wrapUserTag", "wrapUserMode", "wrapUserConditions"}

NoPlaceholderIn(text) == \A i \in 1..Len(text) : ~IsPlaceholder(text[i])

CleanWire(w) ==
  /\ DOMAIN w \cap WrapUserFields = {}
  /\ NoPlaceholderIn(w.content)
  /\ \A b \in 1..Len(w.blocks) : NoPlaceholderIn(w.blocks[b].text)

(* C15: in every branch of every adapter the wrap-user IR messages are     *)
(* consumed into one user message; no output message carries a wrap-user   *)
(* field or stems from a wrap-user marker directly, and no output text     *)
(* holds a placeholder token.                                              *)
C15_NoWrapUserLeak ==
  phase = "done" =>
    /\ \A i \in 1..Len(out) : CleanWire(out[i])
    /\ \A i \in 1..Len(out) : IsAuthored(out[i]) => out[i].src \notin Positions("llm:wrap-user")
    /\ Cardinality({i \in 1..Len(out) : out[i].origin = "wrap-user" /\ out[i].role = "user"})
         = IF Positions("llm:wrap-user") = {} THEN 0 ELSE 1

C15_Witness ==
  /\ phase = "done"
  /\ adapter = "ai-sdk"
  /\ options.hasMessages
  /\ ~HistoryHasUser
  /\ Len(ir) = 2
  /\ ir[1].wrapUserConditions = <<1>>
  /\ ir[2].wrapUserConditions = <<2>>
  /\ Len(out) = 2

NoUserBranch == phase = "done" /\ Positions("llm:wrap-user") # {} /\ ~HistoryHasUser

(* what the children of the wrap-user markers from position p on give when *)
(* the functions see hasUser = false, a marker's enclosed messages apart   *)
RECURSIVE WrapContentsFrom(_)
WrapContentsFrom(p) ==
  IF p > Len(input) THEN <<>>
  ELSE (IF input[p].k = "llm:wrap-user" THEN <<ChildrenText(p + 1, FALSE)>> ELSE <<>>)
       \o WrapContentsFrom(p + 1)

Synthesized == {i \in 1..Len(out) : out[i].origin = "wrap-user"}

(* C16: without a history, or with a history holding no user message, the  *)
(* wrap-user markers give exactly one new user message whose text is their *)
(* contents, evaluated with hasUser = false, in authored order joined by   *)
(* blank lines, without a wrapping tag; it stands after all history        *)
(* messages, each of which is in the output unchanged.                     *)
C16_SynthesizedUser ==
  NoUserBranch =>
    /\ Cardinality(Synthesized) = 1
    /\ \A i \in Synthesized :
         /\ out[i].role = "user"
         /\ WrapText(out[i]) = Join(WrapContentsFrom(1), <<NL, NL>>)
         /\ \A tag \in Tags : ~Contains(WrapText(out[i]), OpenTag(tag))
         /\ \A j \in 1..Len(out) : out[j].origin = "history" => j < i
    /\ Cardinality({j \in 1..Len(out) : out[j].origin = "history"}) = Len(options.messages)
    /\ \A h \in 1..Len(options.messages) : \E j \in 1..Len(out) : out[j] = options.messages[h]

C16_Witness ==
  /\ NoUserBranch
  /\ adapter = "openai"
  /\ Len(options.messages) = 2
  /\ options.messages[1].role = "assistant"
  /\ options.messages[2].role = "system"
  /\ Len(out) = 3
  /\ WrapText(out[3]) = <<"Y", NL, NL>>

IsJsxFile(n) == n.k = "llm:file"

(* the File elements of a function result, in walk order *)
ResultFiles(result) ==
  IF result.type = "jsx"
  THEN LET files == SelectSeq(result.nodes, IsJsxFile)
       IN [i \in 1..Len(files) |-> FilePart(files[i].props)]
  ELSE <<>>

(* the files of the function children from position p on, in authored order *)
RECURSIVE DiscoveredFiles(_, _)
DiscoveredFiles(p, hasUser) ==
  IF p > Len(input) THEN <<>>
  ELSE (IF input[p].k = "function" THEN ResultFiles(CallFn(input[p].n, hasUser)) ELSE <<>>)
       \o DiscoveredFiles(p + 1, hasUser)

(* C17: the user message made of the wrap-user markers holds, after its    *)
(* text, the files their functions returned: in function order within a    *)
(* marker, in walk order within a result, markers in authored order.  With *)
(* files the content is a list: the text block first, present only when    *)
(* the text is not empty, then one part per file; without files the        *)
(* content is a plain string.                                              *)
C17_FilePartsAfterText ==
  (phase = "done" /\ Positions("llm:wrap-user") # {}) =>
    LET files == DiscoveredFiles(1, HistoryHasUser)
        text == IF HistoryHasUser
                THEN processWrapUsers(WrapUsers, OriginalText, TRUE).content
                ELSE Join(WrapContentsFrom(1), <<NL, NL>>)
        w == Replacement
    IN IF files = <<>> THEN w.kind = "string" /\ w.content = text
       ELSE /\ w.kind = "array"
            /\ w.blocks = (IF text # <<>> THEN <<[Block("text") EXCEPT !.text = text]>> ELSE <<>>)
                          \o [i \in 1..Len(files) |-> toPart(adapter, files[i])]

(* two results with different files, the first with its file before its text *)
C17_Witness ==
  /\ phase = "done"
  /\ Positions("llm:wrap-user") # {}
  /\ HistoryHasUser
  /\ Len(Replacement.blocks) = 3
  /\ Replacement.blocks[1].type = "text"
  /\ Replacement.blocks[2] = toPart(adapter, FilePart(CHOOSE p \in FileProps : p.type = "file"))
  /\ Replacement.blocks[3] = toPart(adapter, FilePart(CHOOSE p \in FileProps : p.type = "image"))

(* a user message of files only *)
C17_WitnessNoText ==
  /\ phase = "done"
  /\ Positions("llm:wrap-user") # {}
  /\ ~HistoryHasUser
  /\ Replacement.kind = "array"
  /\ Replacement.blocks = <<toPart(adapter, FilePart(CHOOSE p \in FileProps : p.type = "file"))>>

NativeYieldsIR ==
  phase # "walk" =>
    \A p \in Positions("llm:native") :
      /\ Cardinality({k \in 1..Len(ir) : ir[k].src = p}) = 1
      /\ \A k \in 1..Len(ir) :
           ir[k].src = p =>
             /\ ir[k].role = "user"
             /\ ir[k].content = <<>>
             /\ ir[k].parts = <<>>
             /\ ir[k].isNative
             /\ ir[k].nativeContent = input[p].n

NativeEmitted ==
  phase = "done" =>
    \A p \in Positions("llm:native") :
      /\ Cardinality({i \in 1..Len(out) : out[i].src = p}) = 1
      /\ \A i \in 1..Len(out) :
           out[i].src = p =>
             /\ out[i].origin = "native"
             /\ out[i].role = NativeContents[input[p].n].role
             /\ out[i].kind = "string"
             /\ out[i].content = NativeContents[input[p].n].content

GroupOnly(indentProp, inline) ==
  /\ phase = "ir"
  /\ Len(input) = 5
  /\ input[1].k \in MESSAGE_TYPES
  /\ input[2].k = "llm:group"
  /\ input[2].a = "x"
  /\ input[2].n = indentProp
  /\ input[2].b = (IF inline THEN "inline" ELSE "block")
  /\ input[3].k = "text"
  /\ \A i \in 1..Len(input[3].t) : input[3].t[i] # NL
  /\ input[4].k = "close"
  /\ input[5].k = "close"

(* C19: a message whose only content is a Group of tag x with the single   *)
(* one-line text child V renders as <x>V</x> in inline mode whatever the   *)
(* indent attribute, and as <x>, V indented by two spaces, </x> on three   *)
(* lines in block mode without an indent attribute.                        *)
C19_BlockInlineDuality ==
  /\ \A indentProp \in Indents :
       GroupOnly(indentProp, TRUE) =>
         Len(ir) = 1 /\ ir[1].content = OpenTag("x") \o input[3].t \o CloseTag("x")
  /\ GroupOnly(0, FALSE) =>
       /\ Len(ir) = 1
       /\ ir[1].content = OpenTag("x") \o <<NL, SP, SP>> \o input[3].t \o <<NL>> \o CloseTag("x")

C19_Witness ==
  /\ GroupOnly(0, FALSE)
  /\ input[3].t = <<SP, "b">>
  /\ ir[1].content = OpenTag("x") \o <<NL, SP, SP, SP, "b", NL>> \o CloseTag("x")

(* the children of the element opened at position p, none of which has    *)
(* children of its own                                                     *)
ChildrenOf(p) ==
  LET q == CHOOSE i \in (p + 1)..Len(input) :
             input[i].k = "close" /\ \A j \in (p + 1)..(i - 1) : input[j].k # "close"
  IN SubSeq(input, p + 1, q - 1)

NotWhitespaceText(child) == ~(child.k = "text" /\ \A i \in 1..Len(child.t) : child.t[i] \in Whitespace)

(* the structured result the three cases give for the ToolResult at p *)
StructuredResult(p) ==
  LET remaining == SelectSeq(ChildrenOf(p), NotWhitespaceText)
  IN IF input[p].n # 0 THEN DataOf(input[p].n)
     ELSE IF Len(remaining) = 1 /\ remaining[1].k = "Json" THEN DataOf(remaining[1].n)
     ELSE Undefined

(* C20: the structured result of a Tool-Result marker is its json          *)
(* attribute when that is given; else the data of its Json child when the  *)
(* children other than whitespace-only texts are exactly that one Json     *)
(* element; else it is absent, and the message holds the text of the       *)
(* children.                                                               *)
C20_AutoDetection ==
  phase = "ir" =>
    \A p \in Positions("llm:tool-result") :
      \A k \in 1..Len(ir) :
        ir[k].src = p =>
          /\ ir[k].toolResultJson = StructuredResult(p)
          /\ ir[k].content = Trim(Concat([i \in 1..Len(ChildrenOf(p)) |-> ChildrenOf(p)[i].t]))

(* the output shape Format B gives a tool IR message *)
OutputShape(msg) ==
  CASE msg.toolResultJson.defined /\ ~msg.toolResultIsError -> "json"
    [] msg.toolResultJson.defined /\ msg.toolResultIsError -> "error-json"
    [] ~msg.toolResultJson.defined /\ ~msg.toolResultIsError -> "text"
    [] OTHER -> "error-text"

(* C21: the AI SDK adapter gives every tool-result message one tool-result *)
(* part whose output type is json, error-json, text or error-text by       *)
(* whether a structured result is present and whether the result is an     *)
(* error, and whose value is the structured result in the first two cases  *)
(* and the text content in the other two.                                  *)
C21_OutputShape ==
  (phase = "done" /\ adapter = "ai-sdk") =>
    \A k \in 1..Len(ir) :
      (ir[k].role = "tool" /\ ~ir[k].isNative) =>
        /\ Cardinality({i \in 1..Len(out) : out[i].src = ir[k].src}) = 1
        /\ \A i \in 1..Len(out) :
             out[i].src = ir[k].src =>
               /\ out[i].role = "tool"
               /\ Len(out[i].blocks) = 1
               /\ out[i].blocks[1].type = "tool-result"
               /\ out[i].blocks[1].outputType = OutputShape(ir[k])
               /\ IF ir[k].toolResultJson.defined
                  THEN out[i].blocks[1].json = ir[k].toolResultJson /\ out[i].blocks[1].text = <<>>
                  ELSE out[i].blocks[1].text = ir[k].content /\ ~out[i].blocks[1].json.defined

C21_Witness ==
  /\ phase = "done"
  /\ adapter = "ai-sdk"
  /\ Len(out) = 2
  /\ out[1].role = "tool"
  /\ out[2].role = "tool"
  /\ out[1].blocks[1].outputType = "error-json"
  /\ out[1].blocks[1].json = Object(<<"j">>)
  /\ out[2].blocks[1].outputType = "error-text"
  /\ out[2].blocks[1].text = <<"a">>

IsToolCallBlock(b) == b.type \in {"tool-call", "tool_use"}

(* the tool calls of the output, as (id, name, input) of each; Format A   *)
(* holds the input serialized                                              *)
EmittedCalls ==
  Concat([i \in 1..Len(out) |->
    IF adapter = "openai"
    THEN [j \in 1..Len(out[i].tool_calls) |->
            [id |-> out[i].tool_calls[j].id, name |-> out[i].tool_calls[j].name,
             input |-> out[i].tool_calls[j].arguments]]
    ELSE LET calls_i == SelectSeq(out[i].blocks, IsToolCallBlock)
         IN [j \in 1..Len(calls_i) |->
               [id |-> calls_i[j].id, name |-> calls_i[j].name, input |-> calls_i[j].input]]])

(* the tool calls as authored *)
RECURSIVE AuthoredCalls(_)
AuthoredCalls(p) ==
  IF p > Len(input) THEN <<>>
  ELSE (IF input[p].k = "llm:tool-call"
        THEN <<[id |-> input[p].a, name |-> input[p].b,
                input |-> IF adapter = "openai" THEN Stringify(Object(input[p].t)) ELSE Object(input[p].t)]>>
        ELSE <<>>)
       \o AuthoredCalls(p + 1)

(* C22: the tool calls of the output are the authored ToolCall markers in  *)
(* order, each with its id, its name and its input object: as the input of *)
(* the tool-call part (AI SDK) and of the tool_use block (Anthropic), and  *)
(* serialized in function.arguments (OpenAI).                              *)
C22_InputReachesOutput ==
  phase = "done" => EmittedCalls = AuthoredCalls(1)

(* C23: for the empty input renderToIR returns the empty list, the OpenAI  *)
(* and AI SDK prompts return the empty array, and the Anthropic prompt     *)
(* returns no system field and an empty messages array.                    *)
C23_EmptyInput ==
  input = <<>> =>
    /\ ir = <<>>
    /\ phase = "done" => (out = <<>> /\ ~system.defined)

C23_Witness ==
  /\ input = <<>>
  /\ phase = "done"
  /\ adapter = "anthropic"
  /\ ~options.hasMessages
  /\ out = <<>>
  /\ ~system.defined

(* what renderToIR returns for a tree when it runs alone *)
RECURSIVE WalkAlone(_, _, _, _)
WalkAlone(tree, pc, messages, roles) ==
  IF pc > Len(tree) THEN [i \in 1..Len(messages) |-> ToIRMessage(messages[i])]
  ELSE LET next == processNodeOn(messages, roles, tree[pc], pc)
       IN WalkAlone(tree, pc + 1, next.messages, next.roles)

(* C24: whatever the interleaving of the steps of two renderToIR calls,    *)
(* each call returns what it returns when it runs alone on its tree; two   *)
(* calls on the same tree return equal results.                            *)
C24_CallsIndependent ==
  /\ \A c \in Callers :
       runs.call[c].returned => runs.call[c].result = WalkAlone(runs.call[c].tree, 1, <<>>, <<>>)
  /\ \A c, d \in Callers :
       (runs.call[c].returned /\ runs.call[d].returned /\ runs.call[c].tree = runs.call[d].tree)
         => runs.call[c].result = runs.call[d].result

(* both calls have returned, the second having started while the first was *)
(* in the middle of its tree                                               *)
C24_Witness ==
  /\ \A c \in Callers : runs.call[c].returned
  /\ runs.call[1].tree # runs.call[2].tree
  /\ Len(runs.call[1].result) = 2
  /\ Len(runs.call[2].result) = 1

IsBlockGroup(tok) == tok.k = "llm:group" /\ tok.b = "block"
IsClose(tok) == tok.k = "close"

(* a block Group of tag x with indent n around the body *)
BlockOf(n, body) == OpenTag("x") \o <<NL>> \o IndentLines(body, n) \o <<NL>> \o CloseTag("x")

(* C25: a block Group indents every non-empty line of its body by exactly  *)
(* the indent the author gave, for every indent >= 0, and leaves empty     *)
(* lines alone; with a block Group of indent j inside a block Group of     *)
(* indent i the inner body lines start with i + j spaces and the inner tag *)
(* lines with i spaces.                                                    *)
C25_IndentExact ==
  phase = "ir" =>
    /\ (/\ Len(input) = 5
        /\ IsBlockGroup(input[2])
        /\ input[3].k = "text"
        /\ IsClose(input[4]) /\ IsClose(input[5]))
         => ir[1].content = BlockOf(input[2].n, input[3].t)
    /\ (/\ Len(input) = 7
        /\ IsBlockGroup(input[2])
        /\ IsBlockGroup(input[3])
        /\ input[4].k = "text"
        /\ IsClose(input[5]) /\ IsClose(input[6]) /\ IsClose(input[7]))
         => ir[1].content = BlockOf(input[2].n, BlockOf(input[3].n, input[4].t))

TextStep ==
  /\ phase = "walk"
  /\ Len(input') = Len(input) + 1
  /\ input'[Len(input')].k = "text"

(* the leaf goes to the end of the last message of the list in use when    *)
(* the role context matches it, and nothing changes otherwise              *)
TextEffect ==
  LET ms == lists[Len(lists)]
      t == input'[Len(input')].t
  IN IF CurrentRole # "null" /\ ms # <<>> /\ ms[Len(ms)].role = CurrentRole
     THEN lists' = [lists EXCEPT ![Len(lists)] =
                      [ms EXCEPT ![Len(ms)].content = Append(@, t)]]
     ELSE lists' = lists

IsTextChar(c) == \E t \in Texts : \E i \in 1..Len(t) : t[i] = c /\ c \notin Whitespace
TextChars(s) == SelectSeq(s, IsTextChar)

FinalStep == phase = "walk" /\ phase' = "ir"

(* what the walk has kept for a message is what its IR content shows *)
KeptAppears ==
  /\ Len(ir') = Len(lists[1])
  /\ \A i \in 1..Len(lists[1]) :
       TextChars(ir'[i].content) = TextChars(Concat(lists[1][i].content))

(* C26: a text leaf is appended to the last in-progress message iff a role *)
(* context is active and that message has the role of the context;         *)
(* otherwise it is dropped and no message is created or changed; the text  *)
(* kept for a message appears in the content of its IR message in source   *)
(* order.                                                                  *)
C26_TextLeaf == [][(TextStep => TextEffect) /\ (FinalStep => KeptAppears)]_vars

(* the entries of the in-progress lists that one step of the walk changes *)
Entries == UNION {{<<d, i>> : i \in 1..Len(lists[d])} : d \in 1..Len(lists)}

Modified == {di \in Entries :
               /\ di[1] <= Len(lists')
               /\ di[2] <= Len(lists'[di[1]])
               /\ lists'[di[1]][di[2]] # lists[di[1]][di[2]]}

IsLast(di) == di[2] = Len(lists[di[1]])

(* C27 as stated: a step of the walk modifies no entry but the last one of *)
(* its list, whatever the marker and the nesting.                          *)
C27_OnlyLastModified == [][phase = "walk" => \A di \in Modified : IsLast(di)]_vars

(* the closing tag of an inline Group goes to the message that took its    *)
(* opening tag                                                             *)
InlineCloseAt(di) ==
  /\ frames # <<>>
  /\ Top.kind = "group-inline"
  /\ input'[Len(input')].k = "close"
  /\ di = <<Len(lists), Top.idx>>
  /\ lists'[di[1]][di[2]] =
       [lists[di[1]][di[2]] EXCEPT !.content = Append(@, CloseTag(Top.tag))]

(* the placeholder of a function child goes to its wrap-user message *)
PlaceholderAt(di) ==
  /\ frames # <<>>
  /\ Top.kind = "wrap-user"
  /\ input'[Len(input')].k = "function"
  /\ di = <<Len(lists), Top.idx>>
  /\ lists[di[1]][di[2]].isWrapUser
  /\ \E idx \in 0..(Len(PlaceholderChars) - 1) :
       lists'[di[1]][di[2]] =
         [lists[di[1]][di[2]] EXCEPT !.content = Append(@, Placeholder(idx)),
                                     !.wrapUserConditions = Append(@, input'[Len(input')].n)]

(* C27, amended: a step of the walk modifies an entry that is not the last *)
(* of its list only to append the closing tag of an inline Group to the    *)
(* message that was last when the Group was opened, or to append the       *)
(* placeholder of a function child to the message of its wrap-user marker; *)
(* file parts and tool calls of earlier messages never change.             *)
C27_EarlierUntouched ==
  [][phase = "walk" =>
       \A di \in Modified : IsLast(di) \/ InlineCloseAt(di) \/ PlaceholderAt(di)]_vars

C27_Witness ==
  /\ phase = "walk"
  /\ Len(input) = 5
  /\ input[1].k = "llm:user"
  /\ input[2].k = "llm:group" /\ input[2].b = "inline"
  /\ input[3].k = "llm:assistant"
  /\ IsClose(input[4]) /\ IsClose(input[5])
  /\ Len(lists[1]) = 2
  /\ lists[1][1].content = <<OpenTag(input[2].a), CloseTag(input[2].a)>>

(* the File elements written as children of wrap-user markers *)
StaticFiles ==
  {FilePart(props) : props \in {q \in FileProps : \E p \in Positions("llm:file") : input[p].a = q.data}}

(* C28: every File element written as a static child of a wrap-user marker *)
(* is a part of the user message the adapter builds from the wrap-user     *)
(* content, in every adapter, with and without a user message in the       *)
(* history and without history.                                            *)
C28_StaticFilesKept ==
  (phase = "done" /\ Positions("llm:wrap-user") # {}) =>
    \A file \in StaticFiles :
      /\ Replacement.kind = "array"
      /\ \E i \in 1..Len(Replacement.blocks) : Replacement.blocks[i] = toPart(adapter, file)

(* the elements whose children the walk descends into *)
IsOpener(tok) == tok.k \in MESSAGE_TYPES \cup {"llm:wrap-user", "llm:group", "llm:fragment"}

DepthAt(p) == Cardinality({q \in 1..(p - 1) : IsOpener(input[q])})
              - Cardinality({q \in 1..(p - 1) : IsClose(input[q])})

(* the element the node at p is a child of *)
ParentOf(p) == CHOOSE q \in 1..(p - 1) :
                 /\ IsOpener(input[q])
                 /\ DepthAt(q) = DepthAt(p) - 1
                 /\ \A r \in (q + 1)..(p - 1) : ~(IsOpener(input[r]) /\ DepthAt(r) = DepthAt(p) - 1)

DirectChild(p) == DepthAt(p) >= 1 /\ input[ParentOf(p)].k = "llm:wrap-user"

RECURSIVE DirectFunctionsFrom(_)
DirectFunctionsFrom(q) ==
  IF q > Len(input) THEN <<>>
  ELSE (IF input[q].k = "function" /\ DirectChild(q) THEN <<input[q].n>> ELSE <<>>)
       \o DirectFunctionsFrom(q + 1)

ResultChars == {"X", "Y", "J", "K"}
IsFunctionChar(c) == IsPlaceholder(c) \/ c \in ResultChars

WireText(w) == w.content \o Concat([i \in 1..Len(w.blocks) |-> w.blocks[i].text])

NoFunctionText ==
  /\ \A i \in 1..Len(ir) : SelectSeq(ir[i].content, IsFunctionChar) = <<>>
  /\ \A i \in 1..Len(out) : SelectSeq(WireText(out[i]), IsFunctionChar) = <<>>

(* a function that is not a direct child of a wrap-user marker is walked *)
StrayFunctionStep ==
  /\ phase = "walk"
  /\ Len(input') = Len(input) + 1
  /\ input'[Len(input')].k = "function"
  /\ (frames = <<>> \/ Top.kind # "wrap-user")

NeverInvoked ==
  /\ phase # "done" => calls = <<>>
  /\ phase = "done" => [i \in 1..Len(calls) |-> calls[i].fn] = DirectFunctionsFrom(1)
  /\ DirectFunctionsFrom(1) = <<>> => NoFunctionText

(* C29: a function that is not a direct child of a wrap-user marker (top   *)
(* level, inside a message, inside a Group or fragment within a wrap-user  *)
(* marker) is invoked neither by renderToIR nor by an adapter and leaves   *)
(* no text, no placeholder and no message in the output.                   *)
C29_StrayFunctionIgnored == [][StrayFunctionStep => lists' = lists]_vars /\ []NeverInvoked

(* a function inside a Group of a wrap-user marker, after a direct one *)
C29_Witness ==
  /\ phase = "done"
  /\ Len(input) >= 4
  /\ input[1].k = "llm:wrap-user"
  /\ input[2].k = "function"
  /\ input[3].k = "llm:group"
  /\ input[4].k = "function"
  /\ Len(calls) = 1
  /\ options.hasMessages

(* C30: when prompt(nodes, {messages}) has returned, the caller's array     *)
(* has the length and the elements it had before, in the same order, for   *)
(* every adapter and branch; the last user message of the history is       *)
(* unchanged and the replacement is a new message of the returned array.   *)
C30_HistoryUntouched ==
  phase = "done" =>
    /\ options.callerArray = options.messages
    /\ Replaced =>
         LET lastUserIdx == findLastIndex(options.messages, "user")
         IN /\ options.callerArray[lastUserIdx].origin = "history"
            /\ Replacement.origin = "wrap-user"
            /\ \A i \in 1..Len(options.callerArray) : options.callerArray[i] # Replacement

(* the first of two history messages is the last user message and has been *)
(* replaced in the output                                                  *)
C30_Witness ==
  /\ Replaced
  /\ Len(options.messages) = 2
  /\ options.messages[1].role = "user"
  /\ options.messages[2].role = "assistant"
  /\ Len(out) >= 2
  /\ out[1].origin = "wrap-user"
  /\ out[2] = options.callerArray[2]

====
